---- MODULE Spec2Model ----
(***************************************************************************)
(* Ledger state machine of contracts/src/InheritanceAutomation.sol:        *)
(* the proportional contract InheritanceAutomation and the fixed-split     *)
(* contract SimpleInheritance.  One deployed contract is modelled at a     *)
(* time (variable contract); its storage variables keep the Solidity       *)
(* names.  A transaction is one step, except withdraw, whose external      *)
(* call msg.sender.call{value: amount}("") hands control to the recipient: *)
(* the call frame is pushed on stack, the recipient may call back into the *)
(* contract, and the frame then returns (success) or reverts (the storage  *)
(* saved in the frame is restored).  logs is the event log of the          *)
(* transaction in progress, each event with its arguments other than the   *)
(* block timestamp.                                                        *)
(***************************************************************************)
EXTENDS Integers, Sequences, FiniteSets, TLC

\* ------------------------------------------------------------------ bounds
MaxTime == 2
MaxTotal == 2001
MaxPools == 1
MaxDepth == 2
MaxLog == 3

\* ------------------------------------------------------ principals, inputs
Addr == {"bank", "X", "Y"}
ZeroAddr == "0x0"
Contents == {1, 2}
EmptyString == 0
CaseIds == {"case-1"}
CaseKeys == CaseIds \cup {"case-2"}
ZeroCaseId == "0x0"
Amounts == {0, 1000, 1001}
WithdrawAmounts == {500, 5000}
EmptyBytes == <<>>

\* keccak256(abi.encodePacked(documentContent)): a collision-free digest that
\* is never bytes32(0) and never the content itself.
keccak256(documentContent) == 100 + documentContent

ZeroHash == 0
Hashes == {keccak256(c) : c \in Contents}

\* OpenZeppelin ReentrancyGuard _status values
NOT_ENTERED == "NOT_ENTERED"
ENTERED == "ENTERED"

VARIABLES
    contract,                \* which contract is deployed
    documents,               \* mapping(bytes32 => Document)
    inheritanceCases,        \* mapping(bytes32 => InheritanceCase)
    balances,                \* mapping(address => uint256)
    totalCases,
    totalDocuments,
    allDocumentHashes,       \* bytes32[]
    userDocuments,           \* mapping(address => bytes32[]), InheritanceAutomation only
    bankAddress,
    status,                  \* ReentrancyGuard._status
    funds,                   \* address(this).balance
    overseasInheritor,       \* SimpleInheritance only
    domesticInheritor,       \* SimpleInheritance only
    isInheritanceDistributed,\* SimpleInheritance only
    now,                     \* block.timestamp
    stack,                   \* withdraw frames waiting in their external call
    last,                    \* the most recent call and its outcome
    logs,                    \* events emitted by the transaction so far
    chain                    \* the event log of the chain: the events of the
                             \* transactions that have completed, in order

storage == <<documents, inheritanceCases, balances, totalCases, totalDocuments,
             allDocumentHashes, userDocuments, bankAddress, status, funds, overseasInheritor,
             domesticInheritor, isInheritanceDistributed>>

vars == <<contract, documents, inheritanceCases, balances, totalCases,
          totalDocuments, allDocumentHashes, userDocuments, bankAddress, status, funds,
          overseasInheritor, domesticInheritor, isInheritanceDistributed,
          now, stack, last, logs, chain>>

\* --------------------------------------------------------------- zero values
ZeroDocument ==
    [documentHash |-> ZeroHash, owner |-> ZeroAddr, timestamp |-> 0,
     isVerified |-> FALSE, documentType |-> "", encryptedData |-> EmptyBytes,
     bankPublicKey |-> EmptyBytes]

ZeroCase ==
    [caseId |-> ZeroCaseId, documents |-> <<>>, inheritors |-> <<>>, totalAmount |-> 0,
     isDistributed |-> FALSE, createdAt |-> 0]

ZeroInheritor ==
    [wallet |-> ZeroAddr, isOverseas |-> FALSE, hasReceived |-> FALSE,
     receivedAmount |-> 0]

\* The whole contract storage, as saved by a call frame for its revert.
Storage ==
    [documents |-> documents, inheritanceCases |-> inheritanceCases,
     balances |-> balances, totalCases |-> totalCases,
     totalDocuments |-> totalDocuments, allDocumentHashes |-> allDocumentHashes,
     userDocuments |-> userDocuments,
     bankAddress |-> bankAddress, status |-> status, funds |-> funds,
     overseasInheritor |-> overseasInheritor,
     domesticInheritor |-> domesticInheritor,
     isInheritanceDistributed |-> isInheritanceDistributed]

RECURSIVE SumSeq(_)
SumSeq(s) == IF s = <<>> THEN 0 ELSE Head(s) + SumSeq(Tail(s))

\* ------------------------------------------------------------ call outcomes
\* A call ends with "ok" or with the reason string of the require that failed
\* (a withdraw waiting in its external call shows "calling").
Outcome(op, result) == last' = [op |-> op, result |-> result]

\* The event log of the transaction a call belongs to, as the call finds it:
\* empty for a transaction of its own, and what the transaction has emitted so
\* far for a call made from inside the external call of a withdraw.
Log == IF stack = <<>> THEN <<>> ELSE logs

\* emit: the events es are appended to the log of the transaction.
\* The log of the chain is kept (chain.kept) only by the specification that
\* reads it; everywhere else it stays empty.  A transaction's events join it
\* when the transaction completes without a revert.
Commit(es) == chain' = IF chain.kept THEN [chain EXCEPT !.log = @ \o es] ELSE chain

Emit(es) ==
    /\ logs' = Log \o es
    /\ IF stack = <<>> THEN Commit(es) ELSE UNCHANGED chain

\* A failed require reverts the call: nothing of the storage changes and
\* nothing is logged.
Revert(op, reason) ==
    /\ Outcome(op, reason)
    /\ Emit(<<>>)
    /\ UNCHANGED <<contract, storage, now, stack>>

IA == "InheritanceAutomation"
SI == "SimpleInheritance"

\* =================================================== InheritanceAutomation

\* registerDocument without its require
registerDocumentCheck_None(documentHash) == "ok"

registerDocumentCheck(documentHash) ==
    IF documents[documentHash].timestamp # 0 THEN "Document already exists"
    ELSE "ok"

\* registerDocument without totalDocuments++
registerDocument_NoCount(sender, documentContent, documentType) ==
    LET documentHash == keccak256(documentContent)
        r == registerDocumentCheck(documentHash)
    IN
    /\ contract = IA
    /\ IF r # "ok"
       THEN Revert("registerDocument", r)
       ELSE /\ documents' = [documents EXCEPT ![documentHash] =
                   [documentHash |-> documentHash, owner |-> sender,
                    timestamp |-> now, isVerified |-> FALSE,
                    documentType |-> documentType, encryptedData |-> EmptyBytes,
                    bankPublicKey |-> EmptyBytes]]
            /\ userDocuments' = [userDocuments EXCEPT ![sender] = Append(@, documentHash)]
            /\ allDocumentHashes' = Append(allDocumentHashes, documentHash)
            /\ UNCHANGED totalDocuments
            /\ Emit(<<<<"DocumentRegistered", documentHash, sender, documentType>>>>)
            /\ Outcome("registerDocument", "ok")
            /\ UNCHANGED <<contract, inheritanceCases, balances, totalCases,
                           bankAddress, status, funds, overseasInheritor,
                           domesticInheritor, isInheritanceDistributed, now, stack>>

registerDocument(sender, documentContent, documentType) ==
    LET documentHash == keccak256(documentContent)
        r == registerDocumentCheck(documentHash)
    IN
    /\ contract = IA
    /\ IF r # "ok"
       THEN Revert("registerDocument", r)
       ELSE /\ documents' = [documents EXCEPT ![documentHash] =
                   [documentHash |-> documentHash, owner |-> sender,
                    timestamp |-> now, isVerified |-> FALSE,
                    documentType |-> documentType, encryptedData |-> EmptyBytes,
                    bankPublicKey |-> EmptyBytes]]
            /\ userDocuments' = [userDocuments EXCEPT ![sender] = Append(@, documentHash)]
            /\ allDocumentHashes' = Append(allDocumentHashes, documentHash)
            /\ totalDocuments' = totalDocuments + 1
            /\ Emit(<<<<"DocumentRegistered", documentHash, sender, documentType>>>>)
            /\ Outcome("registerDocument", "ok")
            /\ UNCHANGED <<contract, inheritanceCases, balances, totalCases,
                           bankAddress, status, funds, overseasInheritor,
                           domesticInheritor, isInheritanceDistributed, now, stack>>

\* encryptAndSendToBank without require(documents[documentHash].owner == msg.sender)
encryptAndSendToBankCheck_NoOwner(sender, documentHash, documentContent, bankPublicKey) ==
    IF documents[documentHash].timestamp = 0 THEN "Document does not exist"
    ELSE IF documentContent = EmptyString THEN "Document content cannot be empty"
    ELSE IF bankPublicKey = EmptyBytes THEN "Bank public key cannot be empty"
    ELSE "ok"

encryptAndSendToBankCheck(sender, documentHash, documentContent, bankPublicKey) ==
    IF documents[documentHash].timestamp = 0 THEN "Document does not exist"
    ELSE IF documents[documentHash].owner # sender THEN "Only document owner can encrypt"
    ELSE IF documentContent = EmptyString THEN "Document content cannot be empty"
    ELSE IF bankPublicKey = EmptyBytes THEN "Bank public key cannot be empty"
    ELSE "ok"

encryptAndSendToBank(sender, documentHash, documentContent, bankPublicKey) ==
    LET r == encryptAndSendToBankCheck(sender, documentHash, documentContent, bankPublicKey) IN
    /\ contract = IA
    /\ IF r # "ok"
       THEN Revert("encryptAndSendToBank", r)
       ELSE /\ documents' = [documents EXCEPT ![documentHash] =
                   [@ EXCEPT !.encryptedData = <<"ENCRYPTED:", documentContent, ":", now>>,
                             !.bankPublicKey = bankPublicKey]]
            /\ Emit(<<<<"DocumentEncrypted", documentHash>>>>)
            /\ Outcome("encryptAndSendToBank", "ok")
            /\ UNCHANGED <<contract, inheritanceCases, balances, totalCases,
                           totalDocuments, allDocumentHashes, userDocuments, bankAddress, status,
                           funds, overseasInheritor, domesticInheritor,
                           isInheritanceDistributed, now, stack>>

\* decryptAndVerifyDocument with the body that the source has commented out
decryptAndVerifyDocument_Uncommented(sender, documentHash, decryptedContent) ==
    /\ contract = IA
    /\ IF decryptedContent = EmptyString
       THEN Revert("decryptAndVerifyDocument", "Decrypted content cannot be empty")
       ELSE IF keccak256(decryptedContent) # documents[documentHash].documentHash
       THEN Revert("decryptAndVerifyDocument", "Hash verification failed")
       ELSE /\ documents' = [documents EXCEPT ![documentHash].isVerified = TRUE]
            /\ Emit(<<<<"DocumentDecrypted", documentHash>>,
                      <<"DocumentVerified", documentHash, sender>>>>)
            /\ Outcome("decryptAndVerifyDocument", "ok")
            /\ UNCHANGED <<contract, inheritanceCases, balances, totalCases,
                           totalDocuments, allDocumentHashes, userDocuments, bankAddress, status,
                           funds, overseasInheritor, domesticInheritor,
                           isInheritanceDistributed, now, stack>>

\* The body is commented out in the source: the function has no modifier, emits
\* DocumentDecrypted and returns true, whatever the caller and the arguments.
decryptAndVerifyDocument(sender, documentHash, decryptedContent) ==
    /\ contract = IA
    /\ Emit(<<<<"DocumentDecrypted", documentHash>>>>)
    /\ Outcome("decryptAndVerifyDocument", "ok")
    /\ UNCHANGED <<contract, storage, now, stack>>

\* verifyDocument without require(!documents[documentHash].isVerified)
verifyDocumentCheck_NoVerifiedCheck(sender, documentHash) ==
    IF documents[documentHash].timestamp = 0 THEN "Document does not exist"
    ELSE IF sender # bankAddress THEN "Only bank can call this function"
    ELSE "ok"

\* Modifiers run in the order written: documentExists, then onlyBank.
verifyDocumentCheck(sender, documentHash) ==
    IF documents[documentHash].timestamp = 0 THEN "Document does not exist"
    ELSE IF sender # bankAddress THEN "Only bank can call this function"
    ELSE IF documents[documentHash].isVerified THEN "Document already verified"
    ELSE "ok"

\* verifyDocument on cases that hold references into the registry instead of
\* copies: the document is verified in every case that names it too
verifyDocument_ThroughReference(sender, documentHash) ==
    LET r == verifyDocumentCheck(sender, documentHash) IN
    /\ contract = IA
    /\ IF r # "ok"
       THEN Revert("verifyDocument", r)
       ELSE /\ documents' = [documents EXCEPT ![documentHash].isVerified = TRUE]
            /\ inheritanceCases' =
                  [id \in DOMAIN inheritanceCases |->
                      [inheritanceCases[id] EXCEPT !.documents =
                          [i \in 1..Len(@) |->
                              IF @[i].documentHash = documentHash
                              THEN [@[i] EXCEPT !.isVerified = TRUE]
                              ELSE @[i]]]]
            /\ Emit(<<<<"DocumentVerified", documentHash, sender>>>>)
            /\ Outcome("verifyDocument", "ok")
            /\ UNCHANGED <<contract, balances, totalCases,
                           totalDocuments, allDocumentHashes, userDocuments, bankAddress, status,
                           funds, overseasInheritor, domesticInheritor,
                           isInheritanceDistributed, now, stack>>

verifyDocument(sender, documentHash) ==
    LET r == verifyDocumentCheck(sender, documentHash) IN
    /\ contract = IA
    /\ IF r # "ok"
       THEN Revert("verifyDocument", r)
       ELSE /\ documents' = [documents EXCEPT ![documentHash].isVerified = TRUE]
            /\ Emit(<<<<"DocumentVerified", documentHash, sender>>>>)
            /\ Outcome("verifyDocument", "ok")
            /\ UNCHANGED <<contract, inheritanceCases, balances, totalCases,
                           totalDocuments, allDocumentHashes, userDocuments, bankAddress, status,
                           funds, overseasInheritor, domesticInheritor,
                           isInheritanceDistributed, now, stack>>

\* createInheritanceCase without require(totalShare == 100)
createInheritanceCaseCheck_NoShareSum(caseId, documentHashes, inheritorAddresses, shares) ==
    IF inheritanceCases[caseId].createdAt # 0 THEN "Case already exists"
    ELSE IF Len(documentHashes) = 0 THEN "At least one document required"
    ELSE IF Len(inheritorAddresses) # Len(shares) THEN "Arrays length mismatch"
    ELSE IF Len(inheritorAddresses) = 0 THEN "At least one inheritor required"
    ELSE IF \E i \in 1..Len(documentHashes) : documents[documentHashes[i]].timestamp = 0
         THEN "Document not found"
    ELSE "ok"

\* createInheritanceCase without require(inheritanceCases[caseId].createdAt == 0)
createInheritanceCaseCheck_NoExists(caseId, documentHashes, inheritorAddresses, shares) ==
    IF Len(documentHashes) = 0 THEN "At least one document required"
    ELSE IF Len(inheritorAddresses) # Len(shares) THEN "Arrays length mismatch"
    ELSE IF Len(inheritorAddresses) = 0 THEN "At least one inheritor required"
    ELSE IF SumSeq(shares) # 100 THEN "Total share must be 100"
    ELSE IF \E i \in 1..Len(documentHashes) : documents[documentHashes[i]].timestamp = 0
         THEN "Document not found"
    ELSE "ok"

\* The share sum is checked before the loop that looks the documents up.
createInheritanceCaseCheck(caseId, documentHashes, inheritorAddresses, shares) ==
    IF inheritanceCases[caseId].createdAt # 0 THEN "Case already exists"
    ELSE IF Len(documentHashes) = 0 THEN "At least one document required"
    ELSE IF Len(inheritorAddresses) # Len(shares) THEN "Arrays length mismatch"
    ELSE IF Len(inheritorAddresses) = 0 THEN "At least one inheritor required"
    ELSE IF SumSeq(shares) # 100 THEN "Total share must be 100"
    ELSE IF \E i \in 1..Len(documentHashes) : documents[documentHashes[i]].timestamp = 0
         THEN "Document not found"
    ELSE "ok"

\* createInheritanceCase that, instead of reverting, stops at the first absent
\* document and keeps what it has written of the case until then
createInheritanceCase_NoRevert(sender, caseId, documentHashes, inheritorAddresses, shares) ==
    LET r == createInheritanceCaseCheck(caseId, documentHashes, inheritorAddresses, shares)
        n == CHOOSE k \in 0..Len(documentHashes) :
                 /\ \A i \in 1..k : documents[documentHashes[i]].timestamp # 0
                 /\ k < Len(documentHashes) => documents[documentHashes[k + 1]].timestamp = 0
    IN
    /\ contract = IA
    /\ IF r = "Document not found"
       THEN /\ inheritanceCases' = [inheritanceCases EXCEPT ![caseId] =
                   [@ EXCEPT !.caseId = caseId, !.createdAt = now,
                             !.documents = [i \in 1..n |-> documents[documentHashes[i]]]]]
            /\ Outcome("createInheritanceCase", r)
            /\ Emit(<<>>)
            /\ UNCHANGED <<contract, documents, balances, totalCases, totalDocuments,
                           allDocumentHashes, userDocuments, bankAddress, status, funds,
                           overseasInheritor, domesticInheritor,
                           isInheritanceDistributed, now, stack>>
       ELSE IF r # "ok"
       THEN Revert("createInheritanceCase", r)
       ELSE /\ inheritanceCases' = [inheritanceCases EXCEPT ![caseId] =
                   [caseId |-> caseId,
                    documents |-> [i \in 1..Len(documentHashes) |-> documents[documentHashes[i]]],
                    inheritors |-> [i \in 1..Len(inheritorAddresses) |->
                        [wallet |-> inheritorAddresses[i], share |-> shares[i],
                         hasReceived |-> FALSE, receivedAmount |-> 0]],
                    totalAmount |-> 0,
                    isDistributed |-> FALSE,
                    createdAt |-> now]]
            /\ totalCases' = totalCases + 1
            /\ Emit(<<<<"InheritanceCaseCreated", caseId, sender>>>>)
            /\ Outcome("createInheritanceCase", "ok")
            /\ UNCHANGED <<contract, documents, balances, totalDocuments,
                           allDocumentHashes, userDocuments, bankAddress, status, funds,
                           overseasInheritor, domesticInheritor,
                           isInheritanceDistributed, now, stack>>

createInheritanceCase(sender, caseId, documentHashes, inheritorAddresses, shares) ==
    LET r == createInheritanceCaseCheck(caseId, documentHashes, inheritorAddresses, shares) IN
    /\ contract = IA
    /\ IF r # "ok"
       THEN Revert("createInheritanceCase", r)
       ELSE /\ inheritanceCases' = [inheritanceCases EXCEPT ![caseId] =
                   [caseId |-> caseId,
                    documents |-> [i \in 1..Len(documentHashes) |-> documents[documentHashes[i]]],
                    inheritors |-> [i \in 1..Len(inheritorAddresses) |->
                        [wallet |-> inheritorAddresses[i], share |-> shares[i],
                         hasReceived |-> FALSE, receivedAmount |-> 0]],
                    totalAmount |-> 0,
                    isDistributed |-> FALSE,
                    createdAt |-> now]]
            /\ totalCases' = totalCases + 1
            /\ Emit(<<<<"InheritanceCaseCreated", caseId, sender>>>>)
            /\ Outcome("createInheritanceCase", "ok")
            /\ UNCHANGED <<contract, documents, balances, totalDocuments,
                           allDocumentHashes, userDocuments, bankAddress, status, funds,
                           overseasInheritor, domesticInheritor,
                           isInheritanceDistributed, now, stack>>

\* the share rounded up instead of down
ShareOf_RoundUp(totalAmount, share) == (totalAmount * share + 99) \div 100

\* (totalAmount * share) / 100 in Solidity's integer division
ShareOf(totalAmount, share) == (totalAmount * share) \div 100

\* the credit loop followed by a sweep of what the floors leave over to the
\* last inheritor
RECURSIVE CreditLoop_Sweep(_, _, _, _)
CreditLoop_Sweep(inheritors, totalAmount, i, b) ==
    IF i > Len(inheritors)
    THEN LET paid[k \in 0..Len(inheritors)] ==
                 IF k = 0 THEN 0
                 ELSE paid[k - 1] + ShareOf(totalAmount, inheritors[k].share)
         IN  IF inheritors = <<>> THEN b
             ELSE [b EXCEPT ![inheritors[Len(inheritors)].wallet] =
                                @ + (totalAmount - paid[Len(inheritors)])]
    ELSE LET amount == ShareOf(totalAmount, inheritors[i].share)
             w == inheritors[i].wallet
         IN  CreditLoop_Sweep(inheritors, totalAmount, i + 1,
                              IF amount > 0 THEN [b EXCEPT ![w] = @ + amount] ELSE b)

\* The credit loop of distributeAssets from inheritor i on, over the balances b.
RECURSIVE CreditLoop(_, _, _, _)
CreditLoop(inheritors, totalAmount, i, b) ==
    IF i > Len(inheritors) THEN b
    ELSE LET amount == ShareOf(totalAmount, inheritors[i].share)
             w == inheritors[i].wallet
         IN  CreditLoop(inheritors, totalAmount, i + 1,
                        IF amount > 0 THEN [b EXCEPT ![w] = @ + amount] ELSE b)

\* The inheritor records the credit loop leaves behind.
MarkReceived(inheritors, totalAmount) ==
    [i \in 1..Len(inheritors) |->
        LET amount == ShareOf(totalAmount, inheritors[i].share) IN
        IF amount > 0
        THEN [inheritors[i] EXCEPT !.hasReceived = TRUE, !.receivedAmount = amount]
        ELSE inheritors[i]]

\* The AssetDistributed events of the credit loop from inheritor i on.
RECURSIVE DistributedEvents(_, _, _, _)
DistributedEvents(caseId, inheritors, totalAmount, i) ==
    IF i > Len(inheritors) THEN <<>>
    ELSE LET amount == ShareOf(totalAmount, inheritors[i].share) IN
         (IF amount > 0
          THEN <<<<"AssetDistributed", caseId, inheritors[i].wallet, amount>>>>
          ELSE <<>>)
         \o DistributedEvents(caseId, inheritors, totalAmount, i + 1)

\* distributeAssets without its verification loop
AllDocumentsVerified_Skip(inheritanceCase) == TRUE

\* The verification loop of distributeAssets reads the Document copies the case
\* stored at its creation: inheritanceCase.documents[i].isVerified.
AllDocumentsVerified(inheritanceCase) ==
    \A i \in 1..Len(inheritanceCase.documents) : inheritanceCase.documents[i].isVerified

\* distributeAssets without require(!inheritanceCase.isDistributed)
distributeAssetsCheck_NoFlag(caseId) ==
    IF inheritanceCases[caseId].createdAt = 0 THEN "Case does not exist"
    ELSE IF status = ENTERED THEN "ReentrancyGuardReentrantCall"
    ELSE IF ~(inheritanceCases[caseId].totalAmount > 0) THEN "No assets to distribute"
    ELSE IF ~(\A i \in 1..Len(inheritanceCases[caseId].documents) :
                 inheritanceCases[caseId].documents[i].isVerified)
         THEN "All documents must be verified"
    ELSE "ok"

\* caseExists, then nonReentrant, then the requires of the body.
distributeAssetsCheck(caseId) ==
    IF inheritanceCases[caseId].createdAt = 0 THEN "Case does not exist"
    ELSE IF status = ENTERED THEN "ReentrancyGuardReentrantCall"
    ELSE IF inheritanceCases[caseId].isDistributed THEN "Assets already distributed"
    ELSE IF ~(inheritanceCases[caseId].totalAmount > 0) THEN "No assets to distribute"
    ELSE IF ~AllDocumentsVerified(inheritanceCases[caseId]) THEN "All documents must be verified"
    ELSE "ok"

distributeAssets(sender, caseId) ==
    LET inheritanceCase == inheritanceCases[caseId]
        r == distributeAssetsCheck(caseId)
    IN
    /\ contract = IA
    /\ IF r # "ok"
       THEN Revert("distributeAssets", r)
       ELSE /\ inheritanceCases' = [inheritanceCases EXCEPT ![caseId] =
                   [@ EXCEPT !.isDistributed = TRUE,
                             !.inheritors = MarkReceived(inheritanceCase.inheritors,
                                                         inheritanceCase.totalAmount)]]
            /\ balances' = CreditLoop(inheritanceCase.inheritors,
                                      inheritanceCase.totalAmount, 1, balances)
            /\ Emit(DistributedEvents(caseId, inheritanceCase.inheritors,
                                      inheritanceCase.totalAmount, 1))
            /\ Outcome("distributeAssets", "ok")
            /\ UNCHANGED <<contract, documents, totalCases, totalDocuments,
                           allDocumentHashes, userDocuments, bankAddress, status, funds,
                           overseasInheritor, domesticInheritor,
                           isInheritanceDistributed, now, stack>>

\* ------------------------------------------- distributeAssets, step by step
\* The same call in the steps the code takes: the modifiers and requires and
\* the write of the flag, then one iteration of the credit loop at a time,
\* then the return.  While the call runs, last holds its position: the case
\* and the inheritor the loop is at.
Running == last.op = "distributeAssets" /\ last.result = "running"

\* distributeAssets without inheritanceCase.isDistributed = true before its loop
distributeAssetsBegin_FlagLast(sender, caseId) ==
    LET r == distributeAssetsCheck(caseId) IN
    /\ contract = IA
    /\ ~Running
    /\ IF r # "ok"
       THEN Revert("distributeAssets", r)
       ELSE /\ status' = ENTERED
            /\ last' = [op |-> "distributeAssets", result |-> "running",
                        caseId |-> caseId, i |-> 1]
            /\ Emit(<<>>)
            /\ UNCHANGED <<contract, documents, inheritanceCases, balances, totalCases,
                           totalDocuments, allDocumentHashes, userDocuments, bankAddress,
                           funds, overseasInheritor, domesticInheritor,
                           isInheritanceDistributed, now, stack>>

distributeAssetsBegin(sender, caseId) ==
    LET r == distributeAssetsCheck(caseId) IN
    /\ contract = IA
    /\ ~Running
    /\ IF r # "ok"
       THEN Revert("distributeAssets", r)
       ELSE /\ status' = ENTERED
            /\ inheritanceCases' = [inheritanceCases EXCEPT ![caseId].isDistributed = TRUE]
            /\ last' = [op |-> "distributeAssets", result |-> "running",
                        caseId |-> caseId, i |-> 1]
            /\ Emit(<<>>)
            /\ UNCHANGED <<contract, documents, balances, totalCases,
                           totalDocuments, allDocumentHashes, userDocuments, bankAddress,
                           funds, overseasInheritor, domesticInheritor,
                           isInheritanceDistributed, now, stack>>

\* one iteration of the loop over inheritanceCase.inheritors
distributeAssetsCredit ==
    /\ contract = IA
    /\ Running
    /\ LET caseId == last.caseId
           i == last.i
           inheritanceCase == inheritanceCases[caseId]
       IN
       /\ i <= Len(inheritanceCase.inheritors)
       /\ LET inheritor == inheritanceCase.inheritors[i]
              amount == ShareOf(inheritanceCase.totalAmount, inheritor.share)
          IN
          IF amount > 0
          THEN /\ inheritanceCases' =
                     [inheritanceCases EXCEPT ![caseId].inheritors[i] =
                         [@ EXCEPT !.hasReceived = TRUE, !.receivedAmount = amount]]
               /\ balances' = [balances EXCEPT ![inheritor.wallet] = @ + amount]
               /\ logs' = Append(logs, <<"AssetDistributed", caseId, inheritor.wallet, amount>>)
          ELSE UNCHANGED <<inheritanceCases, balances, logs>>
       /\ UNCHANGED chain
       /\ last' = [last EXCEPT !.i = i + 1]
       /\ UNCHANGED <<contract, documents, totalCases, totalDocuments,
                      allDocumentHashes, userDocuments, bankAddress, status, funds,
                      overseasInheritor, domesticInheritor,
                      isInheritanceDistributed, now, stack>>

\* the loop is over: nonReentrant releases its lock and the call returns
distributeAssetsEnd ==
    /\ contract = IA
    /\ Running
    /\ last.i > Len(inheritanceCases[last.caseId].inheritors)
    /\ status' = NOT_ENTERED
    /\ Outcome("distributeAssets", "ok")
    /\ UNCHANGED <<contract, documents, inheritanceCases, balances, totalCases,
                   totalDocuments, allDocumentHashes, userDocuments, bankAddress,
                   funds, overseasInheritor, domesticInheritor,
                   isInheritanceDistributed, now, stack, logs>>
    /\ Commit(logs)

\* deposit without require(msg.value > 0)
depositCheck_NoAmount(caseId, value) ==
    IF inheritanceCases[caseId].createdAt = 0 THEN "Case does not exist"
    ELSE "ok"

depositCheck(caseId, value) ==
    IF ~(value > 0) THEN "Amount must be greater than 0"
    ELSE IF inheritanceCases[caseId].createdAt = 0 THEN "Case does not exist"
    ELSE "ok"

deposit(sender, caseId, value) ==
    LET r == depositCheck(caseId, value) IN
    /\ contract = IA
    /\ IF r # "ok"
       THEN Revert("deposit", r)
       ELSE /\ inheritanceCases[caseId].totalAmount + value <= MaxTotal
            /\ inheritanceCases' = [inheritanceCases EXCEPT ![caseId].totalAmount = @ + value]
            /\ balances' = [balances EXCEPT ![sender] = @ + value]
            /\ funds' = funds + value
            /\ Emit(<<<<"Deposited", sender, value>>>>)
            /\ Outcome("deposit", "ok")
            /\ UNCHANGED <<contract, documents, totalCases, totalDocuments,
                           allDocumentHashes, userDocuments, bankAddress, status,
                           overseasInheritor, domesticInheritor,
                           isInheritanceDistributed, now, stack>>

\* withdraw without require(balances[msg.sender] >= amount)
withdrawCheck_NoBalance(sender, amount) ==
    IF status = ENTERED THEN "ReentrancyGuardReentrantCall"
    ELSE IF funds < amount THEN "Transfer failed"
    ELSE "ok"

\* nonReentrant, the balance require, then the external call, which fails at
\* once when the contract does not hold amount.
withdrawCheck(sender, amount) ==
    IF status = ENTERED THEN "ReentrancyGuardReentrantCall"
    ELSE IF ~(balances[sender] >= amount) THEN "Insufficient balance"
    ELSE IF funds < amount THEN "Transfer failed"
    ELSE "ok"

\* withdraw without balances[msg.sender] -= amount
withdraw_NoDebit(sender, amount) ==
    LET r == withdrawCheck(sender, amount) IN
    /\ contract = IA
    /\ IF r # "ok"
       THEN Revert("withdraw", r)
       ELSE /\ stack' = Append(stack, [sender |-> sender, amount |-> amount,
                                       saved |-> Storage, logs |-> Log])
            /\ Emit(<<>>)
            /\ status' = ENTERED
            /\ funds' = funds - amount
            /\ Outcome("withdraw", "calling")
            /\ UNCHANGED <<contract, documents, inheritanceCases, balances, totalCases,
                           totalDocuments, allDocumentHashes, userDocuments, bankAddress,
                           overseasInheritor, domesticInheritor,
                           isInheritanceDistributed, now>>

\* withdraw up to and including the start of msg.sender.call{value: amount}:
\* the lock is taken, the balance debited, the ether sent, the recipient runs.
withdraw(sender, amount) ==
    LET r == withdrawCheck(sender, amount) IN
    /\ contract = IA
    /\ IF r # "ok"
       THEN Revert("withdraw", r)
       ELSE /\ stack' = Append(stack, [sender |-> sender, amount |-> amount,
                                       saved |-> Storage, logs |-> Log])
            /\ Emit(<<>>)
            /\ status' = ENTERED
            /\ balances' = [balances EXCEPT ![sender] = @ - amount]
            /\ funds' = funds - amount
            /\ Outcome("withdraw", "calling")
            /\ UNCHANGED <<contract, documents, inheritanceCases, totalCases,
                           totalDocuments, allDocumentHashes, userDocuments, bankAddress,
                           overseasInheritor, domesticInheritor,
                           isInheritanceDistributed, now>>

\* a failed external call that leaves the storage as the call made it
Restore_None(s) ==
    UNCHANGED <<documents, inheritanceCases, balances, totalCases, totalDocuments,
                allDocumentHashes, userDocuments, bankAddress, status, funds, overseasInheritor,
                domesticInheritor, isInheritanceDistributed>>

\* a revert that brings everything back but the bank
Restore_ZeroBank(s) ==
    /\ documents' = s.documents
    /\ inheritanceCases' = s.inheritanceCases
    /\ balances' = s.balances
    /\ totalCases' = s.totalCases
    /\ totalDocuments' = s.totalDocuments
    /\ allDocumentHashes' = s.allDocumentHashes
    /\ userDocuments' = s.userDocuments
    /\ bankAddress' = ZeroAddr
    /\ status' = s.status
    /\ funds' = s.funds
    /\ overseasInheritor' = s.overseasInheritor
    /\ domesticInheritor' = s.domesticInheritor
    /\ isInheritanceDistributed' = s.isInheritanceDistributed

\* revert: the storage is again what the frame saved when the call began.
Restore(s) ==
    /\ documents' = s.documents
    /\ inheritanceCases' = s.inheritanceCases
    /\ balances' = s.balances
    /\ totalCases' = s.totalCases
    /\ totalDocuments' = s.totalDocuments
    /\ allDocumentHashes' = s.allDocumentHashes
    /\ userDocuments' = s.userDocuments
    /\ bankAddress' = s.bankAddress
    /\ status' = s.status
    /\ funds' = s.funds
    /\ overseasInheritor' = s.overseasInheritor
    /\ domesticInheritor' = s.domesticInheritor
    /\ isInheritanceDistributed' = s.isInheritanceDistributed

\* The external call of the innermost withdraw comes back.  With success the
\* rest of withdraw runs (Released is emitted; nonReentrant releases its lock
\* in InheritanceAutomation).  Without, require(success, "Transfer failed")
\* reverts the whole call: the storage saved at its start is back, the ether
\* included.
withdrawReturn(success) ==
    /\ stack # <<>>
    /\ LET frame == stack[Len(stack)] IN
       /\ stack' = SubSeq(stack, 1, Len(stack) - 1)
       /\ IF success
          THEN /\ Outcome("withdraw", "ok")
               /\ logs' = Append(logs, <<"Released", frame.sender, frame.amount>>)
               /\ IF Len(stack) = 1
                  THEN Commit(Append(logs, <<"Released", frame.sender, frame.amount>>))
                  ELSE UNCHANGED chain
               /\ status' = IF contract = IA THEN NOT_ENTERED ELSE status
               /\ UNCHANGED <<documents, inheritanceCases, balances, totalCases,
                              totalDocuments, allDocumentHashes, userDocuments, bankAddress, funds,
                              overseasInheritor, domesticInheritor,
                              isInheritanceDistributed>>
          ELSE /\ Outcome("withdraw", "Transfer failed")
               /\ Restore(frame.saved)
               /\ logs' = frame.logs
               /\ UNCHANGED chain
    /\ UNCHANGED <<contract, now>>

\* block.timestamp advances between transactions.
Tick ==
    /\ stack = <<>>
    /\ now < MaxTime
    /\ now' = now + 1
    /\ UNCHANGED <<contract, storage, stack, last, logs, chain>>

\* ====================================================== SimpleInheritance
\* Amounts of SimpleInheritance are counted in units of 1_000_000_000 wei
\* (TLC's integers are 32 bits wide): SHARE_AMOUNT = 5_000_000_000 is 5 units,
\* and the 10_000_000_000 that _distributeInheritance requires is 10 units.
SHARE_AMOUNT == 5
PoolRequired == 10

SimpleAmounts == {0, SHARE_AMOUNT, PoolRequired}

SI_ZeroDocument ==
    [documentHash |-> ZeroHash, owner |-> ZeroAddr, timestamp |-> 0,
     isVerified |-> FALSE, documentType |-> ""]

SI_registerDocumentCheck(documentHash) ==
    IF documents[documentHash].documentHash # ZeroHash THEN "Document already exists"
    ELSE "ok"

SI_registerDocument(sender, documentContent, documentType) ==
    LET documentHash == keccak256(documentContent)
        r == SI_registerDocumentCheck(documentHash)
    IN
    /\ contract = SI
    /\ IF r # "ok"
       THEN Revert("registerDocument", r)
       ELSE /\ documents' = [documents EXCEPT ![documentHash] =
                   [documentHash |-> documentHash, owner |-> sender,
                    timestamp |-> now, isVerified |-> FALSE,
                    documentType |-> documentType]]
            /\ allDocumentHashes' = Append(allDocumentHashes, documentHash)
            /\ totalDocuments' = totalDocuments + 1
            /\ Emit(<<<<"DocumentRegistered", documentHash, sender, documentType>>>>)
            /\ Outcome("registerDocument", "ok")
            /\ UNCHANGED <<contract, userDocuments, inheritanceCases, balances, totalCases,
                           bankAddress, status, funds, overseasInheritor,
                           domesticInheritor, isInheritanceDistributed, now, stack>>

\* _checkAndDistributeInheritance without its return when distributed
SI_checkAndDistributeInheritance_NoReturn(docs) ==
    \E i \in 1..Len(allDocumentHashes) : docs[allDocumentHashes[i]].isVerified

\* _checkAndDistributeInheritance over the documents docs: does it go on to
\* _distributeInheritance?
SI_checkAndDistributeInheritance(docs) ==
    /\ ~isInheritanceDistributed
    /\ \E i \in 1..Len(allDocumentHashes) : docs[allDocumentHashes[i]].isVerified

\* verifyDocument whose _distributeInheritance lacks the balance require
SI_verifyDocumentCheck_NoBalance(sender, documentHash) ==
    IF sender # bankAddress THEN "Only bank can call this function"
    ELSE IF documents[documentHash].documentHash = ZeroHash THEN "Document does not exist"
    ELSE IF documents[documentHash].isVerified THEN "Document already verified"
    ELSE IF SI_checkAndDistributeInheritance(
                [documents EXCEPT ![documentHash].isVerified = TRUE])
    THEN IF isInheritanceDistributed THEN "Inheritance already distributed"
         ELSE "ok"
    ELSE "ok"

\* onlyBank, the two requires of verifyDocument, then the requires of
\* _distributeInheritance when the call reaches it.
SI_verifyDocumentCheck(sender, documentHash) ==
    IF sender # bankAddress THEN "Only bank can call this function"
    ELSE IF documents[documentHash].documentHash = ZeroHash THEN "Document does not exist"
    ELSE IF documents[documentHash].isVerified THEN "Document already verified"
    ELSE IF SI_checkAndDistributeInheritance(
                [documents EXCEPT ![documentHash].isVerified = TRUE])
    THEN IF isInheritanceDistributed THEN "Inheritance already distributed"
         ELSE IF ~(funds >= PoolRequired) THEN "Insufficient balance"
         ELSE "ok"
    ELSE "ok"

\* _distributeInheritance crediting each inheritor the whole pool it requires
SI_credit_Pool(b, inheritor) ==
    IF ~inheritor.hasReceived
    THEN [b EXCEPT ![inheritor.wallet] = @ + PoolRequired]
    ELSE b

\* The two credits of _distributeInheritance, on the balances b.
SI_credit(b, inheritor) ==
    IF ~inheritor.hasReceived
    THEN [b EXCEPT ![inheritor.wallet] = @ + SHARE_AMOUNT]
    ELSE b

\* _distributeInheritance recording the amount without hasReceived = true
SI_received_NoFlag(inheritor) ==
    IF ~inheritor.hasReceived
    THEN [inheritor EXCEPT !.receivedAmount = SHARE_AMOUNT]
    ELSE inheritor

SI_received(inheritor) ==
    IF ~inheritor.hasReceived
    THEN [inheritor EXCEPT !.hasReceived = TRUE, !.receivedAmount = SHARE_AMOUNT]
    ELSE inheritor

SI_verifyDocument(sender, documentHash) ==
    LET r == SI_verifyDocumentCheck(sender, documentHash)
        docs == [documents EXCEPT ![documentHash].isVerified = TRUE]
    IN
    /\ contract = SI
    /\ IF r # "ok"
       THEN Revert("verifyDocument", r)
       ELSE /\ documents' = docs
            /\ IF SI_checkAndDistributeInheritance(docs)
               THEN /\ balances' = SI_credit(SI_credit(balances, overseasInheritor),
                                             domesticInheritor)
                    /\ overseasInheritor' = SI_received(overseasInheritor)
                    /\ domesticInheritor' = SI_received(domesticInheritor)
                    /\ isInheritanceDistributed' = TRUE
               ELSE UNCHANGED <<balances, overseasInheritor, domesticInheritor,
                                isInheritanceDistributed>>
            /\ Emit(<<<<"DocumentVerified", documentHash, sender>>>>
                    \o (IF SI_checkAndDistributeInheritance(docs)
                        THEN <<<<"InheritanceDistributed", overseasInheritor.wallet,
                                 domesticInheritor.wallet, SHARE_AMOUNT>>>>
                        ELSE <<>>))
            /\ Outcome("verifyDocument", "ok")
            /\ UNCHANGED <<contract, inheritanceCases, totalCases, totalDocuments,
                           allDocumentHashes, userDocuments, bankAddress, status, funds, now, stack>>

\* SimpleInheritance.deposit crediting balances[msg.sender], as
\* InheritanceAutomation.deposit does
SI_deposit_Credit(sender, value) ==
    /\ contract = SI
    /\ IF ~(value > 0)
       THEN Revert("deposit", "Must deposit some amount")
       ELSE /\ funds + value <= MaxPools * PoolRequired
            /\ funds' = funds + value
            /\ balances' = [balances EXCEPT ![sender] = @ + value]
            /\ Emit(<<<<"Deposited", sender, value>>>>)
            /\ Outcome("deposit", "ok")
            /\ UNCHANGED <<contract, documents, inheritanceCases, totalCases,
                           totalDocuments, allDocumentHashes, userDocuments, bankAddress, status,
                           overseasInheritor, domesticInheritor,
                           isInheritanceDistributed, now, stack>>

SI_deposit(sender, value) ==
    /\ contract = SI
    /\ IF ~(value > 0)
       THEN Revert("deposit", "Must deposit some amount")
       ELSE /\ funds + value <= MaxPools * PoolRequired
            /\ funds' = funds + value
            /\ Emit(<<<<"Deposited", sender, value>>>>)
            /\ Outcome("deposit", "ok")
            /\ UNCHANGED <<contract, documents, inheritanceCases, balances, totalCases,
                           totalDocuments, allDocumentHashes, userDocuments, bankAddress, status,
                           overseasInheritor, domesticInheritor,
                           isInheritanceDistributed, now, stack>>

SI_receive(sender, value) ==
    /\ contract = SI
    /\ funds + value <= MaxPools * PoolRequired
    /\ funds' = funds + value
    /\ Emit(<<<<"Deposited", sender, value>>>>)
    /\ Outcome("receive", "ok")
    /\ UNCHANGED <<contract, documents, inheritanceCases, balances, totalCases,
                   totalDocuments, allDocumentHashes, userDocuments, bankAddress, status,
                   overseasInheritor, domesticInheritor,
                   isInheritanceDistributed, now, stack>>

\* the requires of SimpleInheritance.withdraw without require(amount > 0)
SI_withdrawCheck_NoBalance(sender) ==
    IF ~(sender = overseasInheritor.wallet \/ sender = domesticInheritor.wallet)
    THEN "Only inheritors can withdraw"
    ELSE IF funds < balances[sender] THEN "Transfer failed"
    ELSE "ok"

SI_withdrawCheck(sender) ==
    IF ~(sender = overseasInheritor.wallet \/ sender = domesticInheritor.wallet)
    THEN "Only inheritors can withdraw"
    ELSE IF ~(balances[sender] > 0) THEN "No balance to withdraw"
    ELSE IF funds < balances[sender] THEN "Transfer failed"
    ELSE "ok"

\* SimpleInheritance.withdraw with balances[msg.sender] = 0 moved behind the
\* external call
SI_withdraw_DebitAfter(sender) ==
    LET amount == balances[sender] IN
    /\ contract = SI
    /\ IF ~(sender = overseasInheritor.wallet \/ sender = domesticInheritor.wallet)
       THEN Revert("withdraw", "Only inheritors can withdraw")
       ELSE IF ~(amount > 0) THEN Revert("withdraw", "No balance to withdraw")
       ELSE IF funds < amount THEN Revert("withdraw", "Transfer failed")
       ELSE /\ Len(stack) < MaxDepth
            /\ stack' = Append(stack, [sender |-> sender, amount |-> amount,
                                       saved |-> Storage, logs |-> Log])
            /\ Emit(<<>>)
            /\ funds' = funds - amount
            /\ Outcome("withdraw", "calling")
            /\ UNCHANGED <<contract, documents, inheritanceCases, balances, totalCases,
                           totalDocuments, allDocumentHashes, userDocuments, bankAddress, status,
                           overseasInheritor, domesticInheritor,
                           isInheritanceDistributed, now>>

\* SimpleInheritance.withdraw up to and including the start of its external
\* call; it has no reentrancy lock.
SI_withdraw(sender) ==
    LET r == SI_withdrawCheck(sender)
        amount == balances[sender]
    IN
    /\ contract = SI
    /\ IF r # "ok"
       THEN Revert("withdraw", r)
       ELSE /\ Len(stack) < MaxDepth
            /\ stack' = Append(stack, [sender |-> sender, amount |-> amount,
                                       saved |-> Storage, logs |-> Log])
            /\ Emit(<<>>)
            /\ balances' = [balances EXCEPT ![sender] = 0]
            /\ funds' = funds - amount
            /\ Outcome("withdraw", "calling")
            /\ UNCHANGED <<contract, documents, inheritanceCases, totalCases,
                           totalDocuments, allDocumentHashes, userDocuments, bankAddress, status,
                           overseasInheritor, domesticInheritor,
                           isInheritanceDistributed, now>>

\* --------------------------------------------------------------- views
\* A view function returns value to its caller: nothing is stored, nothing is
\* logged.
Return(op, value) ==
    /\ last' = [op |-> op, result |-> "ok", value |-> value]
    /\ Emit(<<>>)
    /\ UNCHANGED <<contract, storage, now, stack>>

getDocumentCheck(documentHash) ==
    IF documents[documentHash].timestamp = 0 THEN "Document does not exist"
    ELSE "ok"

getDocument(documentHash) ==
    LET r == getDocumentCheck(documentHash) IN
    /\ contract = IA
    /\ IF r # "ok"
       THEN Revert("getDocument", r)
       ELSE Return("getDocument", documents[documentHash])

getInheritanceCaseCheck(caseId) ==
    IF inheritanceCases[caseId].createdAt = 0 THEN "Case does not exist"
    ELSE "ok"

getInheritanceCase(caseId) ==
    LET r == getInheritanceCaseCheck(caseId) IN
    /\ contract = IA
    /\ IF r # "ok"
       THEN Revert("getInheritanceCase", r)
       ELSE Return("getInheritanceCase", inheritanceCases[caseId])

getUserDocuments(user) ==
    /\ contract = IA
    /\ Return("getUserDocuments", userDocuments[user])

getDocumentByIndexCheck(index) ==
    IF ~(index < totalDocuments) THEN "Index out of bounds"
    ELSE "ok"

\* The array is indexed from 0 in the source and from 1 here.
getDocumentByIndex(index) ==
    LET r == getDocumentByIndexCheck(index) IN
    /\ contract = IA
    /\ IF r # "ok"
       THEN Revert("getDocumentByIndex", r)
       ELSE LET docHash == allDocumentHashes[index + 1] IN
            Return("getDocumentByIndex", documents[docHash])

\* verifyDocumentHash with the body that the source has commented out
verifyDocumentHashValue_Uncommented(documentHash, documentContent) ==
    LET expectedHash == keccak256(documentContent) IN
    expectedHash = documentHash

\* The body is commented out in the source: the function returns true,
\* whatever the arguments.
verifyDocumentHashValue(documentHash, documentContent) == TRUE

verifyDocumentHash(documentHash, documentContent) ==
    /\ contract = IA
    /\ Return("verifyDocumentHash", verifyDocumentHashValue(documentHash, documentContent))

\* ============================================================ specifications
\* InheritanceAutomation(bankAddress = bank)
DeployIA ==
    /\ contract = IA
    /\ documents = [h \in Hashes |-> ZeroDocument]
    /\ inheritanceCases = [c \in CaseKeys |-> ZeroCase]
    /\ balances = [a \in Addr |-> 0]
    /\ totalCases = 0
    /\ totalDocuments = 0
    /\ allDocumentHashes = <<>>
    /\ userDocuments = [a \in Addr |-> <<>>]
    /\ bankAddress = "bank"
    /\ status = NOT_ENTERED
    /\ funds = 0
    /\ overseasInheritor = ZeroInheritor
    /\ domesticInheritor = ZeroInheritor
    /\ isInheritanceDistributed = FALSE
    /\ now = 1
    /\ stack = <<>>
    /\ last = [op |-> "constructor", result |-> "ok"]
    /\ logs = <<>>

\* SimpleInheritance(overseas = X, domestic = Y, bankAddress = bank)
DeploySI ==
    /\ contract = SI
    /\ documents = [h \in Hashes |-> SI_ZeroDocument]
    /\ inheritanceCases = [c \in CaseKeys |-> ZeroCase]
    /\ balances = [a \in Addr |-> 0]
    /\ totalCases = 0
    /\ totalDocuments = 0
    /\ allDocumentHashes = <<>>
    /\ userDocuments = [a \in Addr |-> <<>>]
    /\ bankAddress = "bank"
    /\ status = NOT_ENTERED
    /\ funds = 0
    /\ overseasInheritor = [wallet |-> "X", isOverseas |-> TRUE,
                            hasReceived |-> FALSE, receivedAmount |-> 0]
    /\ domesticInheritor = [wallet |-> "Y", isOverseas |-> FALSE,
                            hasReceived |-> FALSE, receivedAmount |-> 0]
    /\ isInheritanceDistributed = FALSE
    /\ now = 1
    /\ stack = <<>>
    /\ last = [op |-> "constructor", result |-> "ok"]
    /\ logs = <<>>

InitIA == DeployIA /\ chain = [kept |-> FALSE, log |-> <<>>]

InitSI == DeploySI /\ chain = [kept |-> FALSE, log |-> <<>>]

Init == InitIA

\* Inputs of the ledger specification.
ShareVectors == {<<>>, <<100>>, <<50, 50>>, <<70, 30>>, <<60, 40>>, <<60, 30>>, <<0, 100>>}
InheritorLists == {<<>>, <<"X">>, <<"X", "Y">>}
HashLists == {<<>>, <<keccak256(1)>>, <<keccak256(1), keccak256(2)>>}

\* The ledger of InheritanceAutomation: registration, verification, cases,
\* deposits, distribution and withdrawal.  Inside the external call of a
\* withdraw the recipient calls back into the operations that move funds.
Next ==
    \/ \E c \in Contents : stack = <<>> /\ registerDocument("X", c, "inheritance")
    \/ \E a \in {"bank", "X"}, h \in Hashes : stack = <<>> /\ verifyDocument(a, h)
    \/ \E id \in CaseIds, hs \in HashLists, ws \in InheritorLists, ss \in ShareVectors :
          stack = <<>> /\ createInheritanceCase("X", id, hs, ws, ss)
    \/ \E id \in CaseIds : distributeAssets("X", id)
    \/ \E id \in CaseIds, v \in Amounts : deposit("bank", id, v)
    \/ \E a \in Addr, v \in WithdrawAmounts : withdraw(a, v)
    \/ \E ok \in BOOLEAN : withdrawReturn(ok)

Spec == Init /\ [][Next]_vars

\* The document registry of both contracts, with several callers, document
\* types and block times, and the whole of SimpleInheritance.  Inside the
\* external call of a withdraw the recipient calls withdraw again.
DocTypes == {"inheritance", "contract"}
Key == <<"bank-public-key">>

InitRegistry == InitIA \/ InitSI

NextRegistry ==
    \/ \E a \in {"X", "Y"}, c \in Contents, t \in DocTypes :
          stack = <<>> /\ registerDocument(a, c, t)
    \/ \E a \in Addr, h \in Hashes : stack = <<>> /\ verifyDocument(a, h)
    \/ \E a \in {"X", "Y"}, h \in Hashes, c \in {EmptyString, 1}, k \in {EmptyBytes, Key} :
          stack = <<>> /\ encryptAndSendToBank(a, h, c, k)
    \/ \E a \in Addr, h \in Hashes : stack = <<>> /\ decryptAndVerifyDocument(a, h, 1)
    \/ \E a \in {"X", "Y"}, c \in Contents, t \in DocTypes :
          stack = <<>> /\ SI_registerDocument(a, c, t)
    \/ \E a \in Addr, h \in Hashes : stack = <<>> /\ SI_verifyDocument(a, h)
    \/ \E v \in SimpleAmounts : stack = <<>> /\ SI_deposit("bank", v)
    \/ \E v \in SimpleAmounts : stack = <<>> /\ SI_receive("bank", v)
    \/ \E a \in Addr : SI_withdraw(a)
    \/ \E ok \in BOOLEAN : withdrawReturn(ok)
    \/ Tick

SpecRegistry == InitRegistry /\ [][NextRegistry]_vars

\* Every operation of InheritanceAutomation, on two documents and one case.
NextAll ==
    \/ \E c \in Contents : stack = <<>> /\ registerDocument("X", c, "inheritance")
    \/ \E a \in {"X", "Y"}, c \in {EmptyString, 1}, k \in {EmptyBytes, Key} :
          stack = <<>> /\ encryptAndSendToBank(a, keccak256(1), c, k)
    \/ \E a \in Addr, h \in Hashes, c \in {EmptyString, 1} :
          stack = <<>> /\ decryptAndVerifyDocument(a, h, c)
    \/ \E a \in Addr, h \in Hashes : stack = <<>> /\ verifyDocument(a, h)
    \/ \E hs \in {<<keccak256(1)>>, <<keccak256(1), keccak256(2)>>} :
          stack = <<>> /\ createInheritanceCase("Y", "case-1", hs, <<"X", "Y">>, <<50, 50>>)
    \/ \E a \in Addr : distributeAssets(a, "case-1")
    \/ \E a \in {"bank", "X"} : deposit(a, "case-1", 1000)
    \/ \E a \in Addr : withdraw(a, 500)
    \/ \E ok \in BOOLEAN : withdrawReturn(ok)

SpecAll == InitIA /\ [][NextAll]_vars

\* The funds of both contracts: deposits, distribution and withdrawal, with
\* every call the recipient of a withdraw can make back into the contract
\* while the external call runs (a receive of nothing, which only logs, is
\* made as a transaction of its own).
NextFunds ==
    \/ \E c \in Contents : stack = <<>> /\ registerDocument("X", c, "inheritance")
    \/ \E h \in Hashes : stack = <<>> /\ verifyDocument("bank", h)
    \/ \E ss \in {<<70, 30>>, <<100, 0>>} :
          stack = <<>> /\ createInheritanceCase("X", "case-1", <<keccak256(1)>>,
                                                <<"X", "Y">>, ss)
    \/ \E a \in Addr : distributeAssets(a, "case-1")
    \/ \E a \in {"bank", "X"}, v \in Amounts : deposit(a, "case-1", v)
    \/ \E a \in Addr, v \in WithdrawAmounts : withdraw(a, v)
    \/ \E c \in Contents : stack = <<>> /\ SI_registerDocument("X", c, "inheritance")
    \/ \E a \in {"bank", "X"}, h \in Hashes : SI_verifyDocument(a, h)
    \/ \E v \in SimpleAmounts : SI_deposit("bank", v)
    \/ \E v \in SimpleAmounts : (stack = <<>> \/ v > 0) /\ SI_receive("X", v)
    \/ \E a \in Addr : SI_withdraw(a)
    \/ \E ok \in BOOLEAN : withdrawReturn(ok)

SpecFunds == InitRegistry /\ [][NextFunds]_vars

\* Two cases of InheritanceAutomation over the same documents, with two
\* depositors.
NextCases ==
    \/ stack = <<>> /\ registerDocument("X", 1, "inheritance")
    \/ stack = <<>> /\ verifyDocument("bank", keccak256(1))
    \/ \E id \in CaseKeys :
          stack = <<>> /\ createInheritanceCase("X", id, <<keccak256(1)>>,
                                                <<"X", "Y">>, <<70, 30>>)
    \/ \E id \in CaseKeys : distributeAssets("X", id)
    \/ \E a \in {"bank", "X"}, id \in CaseKeys, v \in {0, 1000} : deposit(a, id, v)
    \/ \E a \in {"bank", "X"} : withdraw(a, 500)
    \/ \E ok \in BOOLEAN : withdrawReturn(ok)

SpecCases == InitIA /\ [][NextCases]_vars

\* The views of InheritanceAutomation over the registry and two cases, with
\* every top-level operation that writes what they read.
Indexes == 0..Cardinality(Contents)

NextViews ==
    \/ \E a \in {"X", "Y"}, c \in Contents : registerDocument(a, c, "inheritance")
    \/ \E h \in Hashes : verifyDocument("bank", h)
    \/ \E id \in CaseKeys :
          createInheritanceCase("X", id, <<keccak256(2), keccak256(1)>>,
                                <<"X", "Y">>, <<70, 30>>)
    \/ \E id \in CaseKeys : deposit("bank", id, 1000)
    \/ \E id \in CaseKeys : distributeAssets("X", id)
    \/ \E a \in Addr, h \in Hashes, c \in {EmptyString} \cup Contents :
          decryptAndVerifyDocument(a, h, c)
    \/ \E h \in Hashes : getDocument(h)
    \/ \E id \in CaseKeys : getInheritanceCase(id)
    \/ \E a \in Addr : getUserDocuments(a)
    \/ \E i \in Indexes : getDocumentByIndex(i)
    \/ \E h \in Hashes, c \in {EmptyString} \cup Contents : verifyDocumentHash(h, c)

SpecViews == InitIA /\ [][NextViews]_vars

\* Every function of both contracts that writes, by every caller, on one
\* document and one case, with the calls a recipient can make from inside the
\* external call of a withdraw.
NextBoth ==
    \/ \E a \in Addr : stack = <<>> /\ registerDocument(a, 1, "inheritance")
    \/ \E a \in Addr : stack = <<>> /\ encryptAndSendToBank(a, keccak256(1), 1, Key)
    \/ \E a \in Addr : stack = <<>> /\ decryptAndVerifyDocument(a, keccak256(1), 1)
    \/ \E a \in Addr : stack = <<>> /\ verifyDocument(a, keccak256(1))
    \/ \E a \in Addr :
          stack = <<>> /\ createInheritanceCase(a, "case-1", <<keccak256(1)>>,
                                                <<"X", "Y">>, <<70, 30>>)
    \/ \E a \in Addr : distributeAssets(a, "case-1")
    \/ \E a \in Addr : deposit(a, "case-1", 1000)
    \/ \E a \in Addr : withdraw(a, 500)
    \/ \E a \in Addr : stack = <<>> /\ SI_registerDocument(a, 1, "inheritance")
    \/ \E a \in Addr : SI_verifyDocument(a, keccak256(1))
    \/ \E a \in Addr : SI_deposit(a, PoolRequired)
    \/ \E a \in Addr : SI_receive(a, SHARE_AMOUNT)
    \/ \E a \in Addr : SI_withdraw(a)
    \/ \E ok \in BOOLEAN : withdrawReturn(ok)

SpecBoth == InitRegistry /\ [][NextBoth]_vars

\* The ledger of InheritanceAutomation with distributeAssets taken in the
\* steps of its code; the other calls are transactions of their own and wait
\* for a running call to return.
NextSteps ==
    \/ ~Running /\ registerDocument("X", 1, "inheritance")
    \/ ~Running /\ verifyDocument("bank", keccak256(1))
    \/ \E ws \in {<<"X", "Y">>, <<"X", "X">>}, ss \in {<<70, 30>>, <<100, 0>>, <<0, 100>>} :
          ~Running /\ createInheritanceCase("X", "case-1", <<keccak256(1)>>, ws, ss)
    \/ \E a \in {"bank", "X"}, v \in {1000, 1001} : ~Running /\ deposit(a, "case-1", v)
    \/ \E a \in {"X", "Y"} : ~Running /\ stack = <<>> /\ withdraw(a, 500)
    \/ \E ok \in BOOLEAN : ~Running /\ withdrawReturn(ok)
    \/ \E a \in Addr : distributeAssetsBegin(a, "case-1")
    \/ distributeAssetsCredit
    \/ distributeAssetsEnd

SpecSteps == InitIA /\ [][NextSteps]_vars

\* InheritanceAutomation with the event log of the chain kept.  The calls
\* that can succeed without end (encryptAndSendToBank, decryptAndVerifyDocument)
\* are made while the log is shorter than MaxLog.  A recipient deposits from
\* inside the external call of its withdraw.
InitLog == DeployIA /\ chain = [kept |-> TRUE, log |-> <<>>]

NextLog ==
    \/ \E c \in Contents : stack = <<>> /\ registerDocument("X", c, "inheritance")
    \/ \E a \in {"bank", "X"}, h \in Hashes : stack = <<>> /\ verifyDocument(a, h)
    \/ \E k \in {EmptyBytes, Key} :
          /\ stack = <<>> /\ Len(chain.log) < MaxLog
          /\ encryptAndSendToBank("X", keccak256(1), 1, k)
    \/ \E a \in {"bank", "Y"} :
          /\ stack = <<>> /\ Len(chain.log) < MaxLog
          /\ decryptAndVerifyDocument(a, keccak256(2), 1)
    \/ stack = <<>> /\ createInheritanceCase("X", "case-1", <<keccak256(1)>>,
                                             <<"X", "Y">>, <<70, 30>>)
    \/ \E a \in {"bank", "X"} : distributeAssets(a, "case-1")
    \/ \E v \in {0, 1000} : stack = <<>> /\ deposit("bank", "case-1", v)
    \/ stack # <<>> /\ deposit("X", "case-1", 1000)
    \/ withdraw("X", 700)
    \/ \E ok \in BOOLEAN : withdrawReturn(ok)

SpecLog == InitLog /\ [][NextLog]_vars

\* ==================================================================== claims
Exists(id) == inheritanceCases[id].createdAt # 0

\* every document the case references is verified in the registry now
LiveVerified(id) ==
    \A i \in 1..Len(inheritanceCases[id].documents) :
        documents[inheritanceCases[id].documents[i].documentHash].isVerified

TopLevel == stack = <<>>

\* C1: single distribution.  A case's isDistributed flag never returns to
\* false; it is set only by a successful distributeAssets, and a successful
\* distributeAssets is made while it is false and sets it, so a case
\* credits its beneficiaries at most once; once it is set
\* the inheritor records of the case never change again, and every
\* distributeAssets on the case fails and changes no balance: with "Assets
\* already distributed" as a transaction of its own, and at the reentrancy lock
\* when it is made from inside the external call of a withdraw.
C1_DistributeStep(id) ==
    /\ inheritanceCases[id].isDistributed => inheritanceCases'[id].isDistributed
    /\ (~inheritanceCases[id].isDistributed /\ inheritanceCases'[id].isDistributed)
          => /\ last' = [op |-> "distributeAssets", result |-> "ok"]
             /\ distributeAssets("X", id)
    /\ (last' = [op |-> "distributeAssets", result |-> "ok"] /\ distributeAssets("X", id))
          => (~inheritanceCases[id].isDistributed /\ inheritanceCases'[id].isDistributed)
    /\ inheritanceCases[id].isDistributed =>
          /\ inheritanceCases'[id].inheritors = inheritanceCases[id].inheritors
          /\ \A a \in Addr : distributeAssets(a, id) =>
                /\ balances' = balances
                /\ UNCHANGED storage
                /\ last'.result = IF TopLevel THEN "Assets already distributed"
                                  ELSE "ReentrancyGuardReentrantCall"

C1_SingleDistribution == [][\A id \in CaseIds : C1_DistributeStep(id)]_vars

\* a second distributeAssets on a distributed case was made and rejected
C1_Witness ==
    /\ last = [op |-> "distributeAssets", result |-> "Assets already distributed"]
    /\ inheritanceCases["case-1"].isDistributed
    /\ \E i \in 1..Len(inheritanceCases["case-1"].inheritors) :
          inheritanceCases["case-1"].inheritors[i].hasReceived

\* C2: distribution re-reads the live verification state of the registry:
\* a distributeAssets made as a transaction of its own on an existing,
\* undistributed case with totalAmount > 0 whose referenced documents are all
\* verified in the registry succeeds, also when the case was created while a
\* document was still unverified.
C2_LiveVerification ==
    [][\A id \in CaseIds :
         (/\ TopLevel /\ Exists(id) /\ ~inheritanceCases[id].isDistributed
          /\ inheritanceCases[id].totalAmount > 0 /\ LiveVerified(id)
          /\ distributeAssets("X", id))
         => last'.result = "ok"]_vars

\* C3: distribution guard.  A distributed case has totalAmount > 0 and all
\* its referenced documents verified in the registry; the flag is set only by
\* a distributeAssets made in such a state; and a distributeAssets made as a
\* transaction of its own fails, leaving the storage unchanged, with "Case does
\* not exist" on an unknown caseId, with "No assets to distribute" on an
\* undistributed case with totalAmount = 0, and with "All documents must be
\* verified" on an undistributed case with totalAmount > 0 that references a
\* document unverified in the registry.
C3_Guarded(id) ==
    inheritanceCases[id].isDistributed =>
        inheritanceCases[id].totalAmount > 0 /\ LiveVerified(id)

C3_DistributeStep(id) ==
    /\ (~inheritanceCases[id].isDistributed /\ inheritanceCases'[id].isDistributed)
          => /\ inheritanceCases[id].totalAmount > 0
             /\ LiveVerified(id)
             /\ last' = [op |-> "distributeAssets", result |-> "ok"]
    /\ \A a \in Addr : (TopLevel /\ distributeAssets(a, id)) =>
          /\ ~Exists(id) => last'.result = "Case does not exist" /\ UNCHANGED storage
          /\ (Exists(id) /\ ~inheritanceCases[id].isDistributed
                /\ inheritanceCases[id].totalAmount = 0)
                => last'.result = "No assets to distribute" /\ UNCHANGED storage
          /\ (Exists(id) /\ ~inheritanceCases[id].isDistributed
                /\ inheritanceCases[id].totalAmount > 0 /\ ~LiveVerified(id))
                => last'.result = "All documents must be verified" /\ UNCHANGED storage

C3_DistributionGuard ==
    /\ [](\A id \in CaseIds : C3_Guarded(id))
    /\ [][\A id \in CaseIds : C3_DistributeStep(id)]_vars

\* a distributeAssets was rejected because a referenced document is unverified
C3_Witness ==
    /\ last = [op |-> "distributeAssets", result |-> "All documents must be verified"]
    /\ inheritanceCases["case-1"].totalAmount > 0
    /\ ~LiveVerified("case-1")

\* C4: conservation in a successful distributeAssets.  Beneficiary i is
\* credited exactly the floor of totalAmount * share_i / 100, that is the one
\* amount a with 100 * a <= totalAmount * share_i < 100 * (a + 1): its wallet's
\* balance rises by the amounts of the entries that name it, and its
\* receivedAmount is that amount.  totalAmount 1000 with shares [70, 30]
\* credits 700 and 300.  The amounts credited sum to at most totalAmount.
FloorShare(totalAmount, share) ==
    CHOOSE a \in 0..totalAmount :
        100 * a <= totalAmount * share /\ totalAmount * share < 100 * (a + 1)

RECURSIVE C4_CreditedTo(_, _, _, _)
C4_CreditedTo(w, inheritors, totalAmount, i) ==
    IF i > Len(inheritors) THEN 0
    ELSE (IF inheritors[i].wallet = w
          THEN FloorShare(totalAmount, inheritors[i].share) ELSE 0)
         + C4_CreditedTo(w, inheritors, totalAmount, i + 1)

RECURSIVE SumOver(_, _)
SumOver(f, S) ==
    IF S = {} THEN 0
    ELSE LET x == CHOOSE y \in S : TRUE IN f[x] + SumOver(f, S \ {x})

C4_DistributeStep(id) ==
    LET c == inheritanceCases[id]
        credit == [w \in Addr |-> balances'[w] - balances[w]]
    IN
    (~c.isDistributed /\ inheritanceCases'[id].isDistributed) =>
        /\ \A w \in Addr : credit[w] = C4_CreditedTo(w, c.inheritors, c.totalAmount, 1)
        /\ \A i \in 1..Len(c.inheritors) :
              FloorShare(c.totalAmount, c.inheritors[i].share) > 0 =>
                  inheritanceCases'[id].inheritors[i].receivedAmount
                      = FloorShare(c.totalAmount, c.inheritors[i].share)
        /\ SumOver(credit, Addr) <= c.totalAmount
        /\ (c.totalAmount = 1000
              /\ c.inheritors = <<[wallet |-> "X", share |-> 70, hasReceived |-> FALSE,
                                   receivedAmount |-> 0],
                                  [wallet |-> "Y", share |-> 30, hasReceived |-> FALSE,
                                   receivedAmount |-> 0]>>)
              => credit["X"] = 700 /\ credit["Y"] = 300

C4_Conservation == [][\A id \in CaseIds : C4_DistributeStep(id)]_vars

\* 1001 was distributed by shares [70, 30]: 700 and 300 credited, 1 left over
C4_Witness ==
    /\ last = [op |-> "distributeAssets", result |-> "ok"]
    /\ inheritanceCases["case-1"].totalAmount = 1001
    /\ inheritanceCases["case-1"].isDistributed
    /\ Len(inheritanceCases["case-1"].inheritors) = 2
    /\ inheritanceCases["case-1"].inheritors[1].share = 70
    /\ inheritanceCases["case-1"].inheritors[1].receivedAmount = 700
    /\ inheritanceCases["case-1"].inheritors[2].receivedAmount = 300
    /\ balances["X"] = 700 /\ balances["Y"] = 300

\* C5: conservation of funds.  The withdrawable balances of all principals
\* sum to at most the funds the contract holds.
C5_Conservation == SumOver(balances, Addr) <= funds

\* the record registered under hash h is there
Registered(h) == documents[h].documentHash = h

\* C6: verifyDocument by any caller other than the bank fails with "Only
\* bank can call this function" and changes nothing, for an absent, an
\* unverified and a verified hash alike, in both contracts.
C6_NonBankVerify ==
    [][\A a \in Addr \ {bankAddress}, h \in Hashes :
         (verifyDocument(a, h) \/ SI_verifyDocument(a, h))
         => (last'.result = "Only bank can call this function" /\ UNCHANGED storage)]_vars

\* C7: verification is one-way, in both contracts.  A verified document
\* stays verified and a registered document stays registered in every step,
\* and verifyDocument by the bank on a verified hash fails with "Document
\* already verified" and changes nothing.
C7_Step(h) ==
    /\ documents[h].isVerified => documents'[h].isVerified
    /\ Registered(h) => documents'[h].documentHash = h
    /\ (documents[h].isVerified
          /\ (verifyDocument(bankAddress, h) \/ SI_verifyDocument(bankAddress, h)))
          => (last'.result = "Document already verified" /\ UNCHANGED storage)

C7_OneWayVerification == [][\A h \in Hashes : C7_Step(h)]_vars

\* the bank verified a verified document of SimpleInheritance again
C7_Witness ==
    /\ contract = SI
    /\ last = [op |-> "verifyDocument", result |-> "Document already verified"]
    /\ \E h \in Hashes : documents[h].isVerified

\* C8: only the bank's verifyDocument verifies.  Whenever a document of
\* InheritanceAutomation goes from unverified to verified, the step is a
\* successful verifyDocument on that hash with the bank as caller; no other
\* operation, by any caller, sets the flag.
C8_Step(h) ==
    (~documents[h].isVerified /\ documents'[h].isVerified)
        => /\ last' = [op |-> "verifyDocument", result |-> "ok"]
           /\ verifyDocument(bankAddress, h)
           /\ \A a \in Addr \ {bankAddress} : ~verifyDocument(a, h)

C8_OnlyBankVerifies == [][\A h \in Hashes : C8_Step(h)]_vars

\* a document verified by the bank, after which anyone called
\* decryptAndVerifyDocument on the other, unverified, document
C8_Witness ==
    /\ last = [op |-> "decryptAndVerifyDocument", result |-> "ok"]
    /\ documents[keccak256(1)].isVerified
    /\ Registered(keccak256(2)) /\ ~documents[keccak256(2)].isVerified

\* C9: registration uniqueness, in both contracts.  registerDocument of a
\* content whose hash is registered fails with "Document already exists",
\* whoever calls, and changes nothing; no step changes the owner, timestamp or
\* type of a registered record; the index holds every registered hash exactly
\* once and its length is the document count.
C9_Step(c) ==
    LET h == keccak256(c) IN
    Registered(h) =>
        /\ documents'[h].documentHash = h
        /\ documents'[h].owner = documents[h].owner
        /\ documents'[h].timestamp = documents[h].timestamp
        /\ documents'[h].documentType = documents[h].documentType
        /\ last'.op = "registerDocument" =>
              \A a \in Addr, t \in DocTypes :
                  (registerDocument(a, c, t) \/ SI_registerDocument(a, c, t))
                  => (last'.result = "Document already exists" /\ UNCHANGED storage)

C9_Index ==
    /\ totalDocuments = Len(allDocumentHashes)
    /\ \A i, j \in 1..Len(allDocumentHashes) :
          allDocumentHashes[i] = allDocumentHashes[j] => i = j
    /\ \A h \in Hashes :
          Registered(h) <=> \E i \in 1..Len(allDocumentHashes) : allDocumentHashes[i] = h

C9_RegistrationUnique ==
    /\ []C9_Index
    /\ [][\A c \in Contents : C9_Step(c)]_vars

\* a registered content was registered again at a later time and rejected
C9_Witness ==
    /\ contract = IA
    /\ last = [op |-> "registerDocument", result |-> "Document already exists"]
    /\ \E h \in Hashes : Registered(h) /\ documents[h].timestamp < now

\* C10: share sum.  In every reachable state a createInheritanceCase with
\* shares that do not sum to 100 is rejected, with "Total share must be 100"
\* when the caseId is free and the arrays are non-empty and of equal length;
\* shares [60, 30] are rejected, and [60, 40] for two inheritors are accepted
\* on a free caseId over registered documents.  A rejected call leaves the
\* storage as it was, a case comes to exist only by an accepted call, and
\* every case that exists has shares summing to 100.
RECURSIVE C10_ShareTotal(_, _)
C10_ShareTotal(inheritors, i) ==
    IF i > Len(inheritors) THEN 0
    ELSE inheritors[i].share + C10_ShareTotal(inheritors, i + 1)

RECURSIVE C10_Sum(_, _)
C10_Sum(shares, i) ==
    IF i > Len(shares) THEN 0 ELSE shares[i] + C10_Sum(shares, i + 1)

C10_Cases ==
    \A id \in CaseIds : Exists(id) => C10_ShareTotal(inheritanceCases[id].inheritors, 1) = 100

C10_Rejects(id, hs, ws, ss) ==
    LET r == createInheritanceCaseCheck(id, hs, ws, ss) IN
    /\ C10_Sum(ss, 1) # 100 =>
          /\ r # "ok"
          /\ (~Exists(id) /\ hs # <<>> /\ Len(ws) = Len(ss) /\ ws # <<>>)
                => r = "Total share must be 100"
    /\ ss = <<60, 30>> => r # "ok"
    /\ (ss = <<60, 40>> /\ ws = <<"X", "Y">> /\ ~Exists(id) /\ hs # <<>>
          /\ \A i \in 1..Len(hs) : Registered(hs[i]))
          => r = "ok"

C10_CreateStep(id) ==
    /\ (last'.op = "createInheritanceCase" /\ last'.result # "ok" /\ TopLevel)
          => UNCHANGED storage
    /\ (~Exists(id) /\ inheritanceCases'[id].createdAt # 0)
          => last' = [op |-> "createInheritanceCase", result |-> "ok"]

C10_ShareSum ==
    /\ [](C10_Cases /\ \A id \in CaseIds, hs \in HashLists, ws \in InheritorLists,
                          ss \in ShareVectors : C10_Rejects(id, hs, ws, ss))
    /\ [][\A id \in CaseIds : C10_CreateStep(id)]_vars

\* shares [60, 30] were rejected for their sum
C10_Witness ==
    /\ last = [op |-> "createInheritanceCase", result |-> "Total share must be 100"]
    /\ ~Exists("case-1")

\* C11: withdraw(amount) of InheritanceAutomation with amount above the
\* caller's balance fails, with "Insufficient balance" as a transaction of its
\* own (and at the reentrancy lock when made from inside the external call of
\* a withdraw); no transfer is started, nothing is logged, and the caller's
\* balance, every other balance and the funds held stay as they were.
C11_Step(a, v) ==
    (v > balances[a] /\ withdraw(a, v)) =>
        /\ last' = [op |-> "withdraw",
                    result |-> IF TopLevel THEN "Insufficient balance"
                               ELSE "ReentrancyGuardReentrantCall"]
        /\ balances' = balances
        /\ funds' = funds
        /\ stack' = stack
        /\ logs' = Log
        /\ UNCHANGED storage

C11_InsufficientFunds == [][\A a \in Addr, v \in WithdrawAmounts : C11_Step(a, v)]_vars

\* a principal holding 500 asked for 5000 and was refused
C11_Witness ==
    /\ last = [op |-> "withdraw", result |-> "Insufficient balance"]
    /\ \E a \in Addr : balances[a] = 500
    /\ \A a \in Addr : balances[a] < 5000
    /\ funds >= 500

\* C12: withdrawal is one atomic unit with the debit before the transfer, in
\* both contracts.  When the external transfer starts, the caller's balance
\* is already reduced by exactly the amount sent, no other balance has
\* changed and nothing is logged yet; Released is logged only by the step in
\* which the transfer comes back with success, for that caller and amount,
\* and that step changes no balance; when the transfer fails, the whole
\* storage, the debit included, is what it was before the call and the log of
\* the transaction has no event of the call.
C12_TransferStep ==
    LET f == stack'[Len(stack')] IN
    Len(stack') = Len(stack) + 1 =>
        /\ f.saved = Storage
        /\ f.amount <= balances[f.sender]
        /\ balances' = [balances EXCEPT ![f.sender] = @ - f.amount]
        /\ funds' = funds - f.amount
        /\ logs' = Log
        /\ last' = [op |-> "withdraw", result |-> "calling"]

C12_ReturnStep ==
    LET f == stack[Len(stack)] IN
    Len(stack') = Len(stack) - 1 =>
        /\ last'.op = "withdraw" /\ last'.result \in {"ok", "Transfer failed"}
        /\ last'.result = "ok" =>
              /\ logs' = Append(logs, <<"Released", f.sender, f.amount>>)
              /\ balances' = balances
        /\ last'.result = "Transfer failed" =>
              /\ balances' = f.saved.balances
              /\ Storage' = f.saved
              /\ logs' = f.logs

C12_ReleasedOnlyAfter ==
    (\E i \in 1..Len(logs') : i > Len(Log) /\ logs'[i][1] = "Released") =>
        /\ last' = [op |-> "withdraw", result |-> "ok"]
        /\ Len(stack') = Len(stack) - 1

C12_FailedAtOnce ==
    (last' = [op |-> "withdraw", result |-> "Transfer failed"] /\ stack' = stack
        /\ (\E a \in Addr, v \in WithdrawAmounts : withdraw(a, v) \/ SI_withdraw(a)))
    => (UNCHANGED storage /\ logs' = Log)

C12_AtomicWithdraw ==
    [][C12_TransferStep /\ C12_ReturnStep /\ C12_ReleasedOnlyAfter
         /\ C12_FailedAtOnce]_vars

\* a withdraw of 500 that the contract could pay was refused by its recipient
\* and rolled back
C12_Witness ==
    /\ contract = IA
    /\ last = [op |-> "withdraw", result |-> "Transfer failed"]
    /\ stack = <<>>
    /\ logs = <<>>
    /\ funds >= 500
    /\ \E a \in Addr : balances[a] >= 500
    /\ \A a \in Addr : balances[a] < 5000

\* C13: fixed split.  In SimpleInheritance, with at least PoolRequired
\* (10,000,000,000 wei) held and no distribution yet, the bank's verifyDocument
\* of any one registered, unverified document succeeds and distributes inside
\* the call: exactly SHARE_AMOUNT (5,000,000,000 wei) is credited to the
\* overseas and to the domestic inheritor and to nobody else.  The
\* distribution happens once: isInheritanceDistributed never returns to
\* false, and a verifyDocument made after it succeeds, credits no balance and
\* leaves both inheritor records as they are.
C13_VerifyStep(h) ==
    (contract = SI /\ Registered(h) /\ ~documents[h].isVerified
        /\ SI_verifyDocument(bankAddress, h)) =>
        /\ (~isInheritanceDistributed /\ funds >= PoolRequired) =>
              /\ last' = [op |-> "verifyDocument", result |-> "ok"]
              /\ documents'[h].isVerified
              /\ isInheritanceDistributed'
              /\ \A a \in Addr :
                    balances'[a] = balances[a]
                        + (IF a = overseasInheritor.wallet THEN SHARE_AMOUNT ELSE 0)
                        + (IF a = domesticInheritor.wallet THEN SHARE_AMOUNT ELSE 0)
              /\ overseasInheritor'.receivedAmount = SHARE_AMOUNT
              /\ domesticInheritor'.receivedAmount = SHARE_AMOUNT
        /\ isInheritanceDistributed =>
              /\ last' = [op |-> "verifyDocument", result |-> "ok"]
              /\ documents'[h].isVerified
              /\ balances' = balances
              /\ UNCHANGED <<overseasInheritor, domesticInheritor, funds>>

C13_Once ==
    contract = SI =>
        /\ isInheritanceDistributed => isInheritanceDistributed'
        /\ (~isInheritanceDistributed /\ isInheritanceDistributed')
              => last' = [op |-> "verifyDocument", result |-> "ok"]
        /\ \A a \in Addr : balances'[a] > balances[a] =>
              \/ ~isInheritanceDistributed /\ isInheritanceDistributed'
              \/ last' = [op |-> "withdraw", result |-> "Transfer failed"]

C13_FixedSplit == [][C13_Once /\ \A h \in Hashes : C13_VerifyStep(h)]_vars

\* a second document was verified after the distribution: both inheritors
\* still hold the 5 units of the one distribution
C13_Witness ==
    /\ contract = SI
    /\ last = [op |-> "verifyDocument", result |-> "ok"]
    /\ logs = <<<<"DocumentVerified", keccak256(2), "bank">>>>
    /\ documents[keccak256(1)].isVerified
    /\ isInheritanceDistributed
    /\ balances["X"] = SHARE_AMOUNT /\ balances["Y"] = SHARE_AMOUNT
    /\ overseasInheritor.receivedAmount = SHARE_AMOUNT

\* C14: deposit of InheritanceAutomation.  With an amount that is not above
\* 0 it fails with "Amount must be greater than 0", and with a positive
\* amount on an absent case with "Case does not exist"; either way the
\* storage stays as it was and nothing is logged.  With a positive amount on
\* an existing case it succeeds: the totalAmount of that case and the balance
\* of the depositor each rise by exactly the amount, nothing else of that case,
\* no other case and no other balance changes, and Deposited is logged for the
\* depositor and the amount.
C14_Step(a, id, v) ==
    deposit(a, id, v) =>
        /\ ~(v > 0) =>
              /\ last' = [op |-> "deposit", result |-> "Amount must be greater than 0"]
              /\ UNCHANGED storage /\ logs' = Log
        /\ (v > 0 /\ ~Exists(id)) =>
              /\ last' = [op |-> "deposit", result |-> "Case does not exist"]
              /\ UNCHANGED storage /\ logs' = Log
        /\ (v > 0 /\ Exists(id)) =>
              /\ last' = [op |-> "deposit", result |-> "ok"]
              /\ inheritanceCases'[id] =
                    [inheritanceCases[id] EXCEPT !.totalAmount = @ + v]
              /\ \A other \in CaseKeys \ {id} :
                    inheritanceCases'[other] = inheritanceCases[other]
              /\ balances'[a] = balances[a] + v
              /\ \A b \in Addr \ {a} : balances'[b] = balances[b]
              /\ logs' = Append(Log, <<"Deposited", a, v>>)
              /\ UNCHANGED <<documents, totalCases, totalDocuments, allDocumentHashes, userDocuments,
                             bankAddress, status>>

C14_Deposit ==
    [][\A a \in Addr, id \in CaseKeys, v \in Amounts : C14_Step(a, id, v)]_vars

\* 1000 was deposited into the second case while the first one, distributed,
\* kept its totalAmount and Y the 300 it was credited
C14_Witness ==
    /\ last = [op |-> "deposit", result |-> "ok"]
    /\ logs = <<<<"Deposited", "bank", 1000>>>>
    /\ inheritanceCases["case-1"].isDistributed
    /\ inheritanceCases["case-1"].totalAmount = 1000
    /\ inheritanceCases["case-2"].totalAmount = 1000
    /\ ~inheritanceCases["case-2"].isDistributed
    /\ balances["Y"] = 300
    /\ balances["bank"] >= 1000

\* C15: reentrancy lock, in both contracts.  While the external call of a
\* withdraw is running, every withdraw and every distributeAssets made on the
\* contract, by any caller, is rejected and changes nothing; and once the
\* outermost call has returned or reverted, the lock is free again.
C15_NestedRejected ==
    stack # <<>> =>
        \A a \in Addr :
            ((\E v \in WithdrawAmounts : withdraw(a, v))
                \/ SI_withdraw(a)
                \/ (\E id \in CaseIds : distributeAssets(a, id)))
            => /\ last'.result \notin {"ok", "calling"}
               /\ stack' = stack
               /\ UNCHANGED storage

C15_Released == stack = <<>> => status = NOT_ENTERED

C15_ReentrancyLock == []C15_Released /\ [][C15_NestedRejected]_vars

\* C16: no re-entrant over-payment, in both contracts.  While the external
\* call of a withdraw runs, the caller's balance is the reduced one (0 in
\* SimpleInheritance; in InheritanceAutomation the balance before the call
\* less the amount, plus what the caller deposited since); at every moment of
\* a transaction, what has been sent to a principal by the withdraws in
\* progress and by those already released in it is at most the balance the
\* principal had when the transaction began, and so it is when the transaction
\* ends; and no step taken inside an external call changes the isDistributed
\* flag or an inheritor record of a case, or the fixed-split distribution.
RECURSIVE C16_Logged(_, _, _, _)
C16_Logged(log, name, a, i) ==
    IF i > Len(log) THEN 0
    ELSE (IF log[i][1] = name /\ log[i][2] = a THEN log[i][3] ELSE 0)
         + C16_Logged(log, name, a, i + 1)

RECURSIVE C16_InFlight(_, _, _)
C16_InFlight(frames, a, i) ==
    IF i > Len(frames) THEN 0
    ELSE (IF frames[i].sender = a THEN frames[i].amount ELSE 0)
         + C16_InFlight(frames, a, i + 1)

C16_Sent(a) == C16_InFlight(stack, a, 1) + C16_Logged(logs, "Released", a, 1)

C16_Bounded ==
    stack # <<>> =>
        /\ \A a \in Addr : C16_Sent(a) <= stack[1].saved.balances[a]
        /\ \A i \in 1..Len(stack) :
              LET f == stack[i] IN
              IF contract = SI THEN balances[f.sender] = 0
              ELSE balances[f.sender] + f.amount =
                      f.saved.balances[f.sender]
                          + C16_Logged(logs, "Deposited", f.sender, 1)

C16_Step ==
    stack # <<>> =>
        /\ \A a \in Addr :
              C16_Logged(logs', "Released", a, 1) + C16_InFlight(stack', a, 1)
                  <= stack[1].saved.balances[a]
        /\ \A id \in CaseIds :
              /\ inheritanceCases'[id].isDistributed = inheritanceCases[id].isDistributed
              /\ inheritanceCases'[id].inheritors = inheritanceCases[id].inheritors
        /\ UNCHANGED <<isInheritanceDistributed, overseasInheritor, domesticInheritor>>

C16_NoOverPayment == []C16_Bounded /\ [][C16_Step]_vars

\* X, whose withdraw of its 5 units is waiting in its external call, called
\* withdraw again and was refused for its balance of 0
C16_Witness ==
    /\ contract = SI
    /\ Len(stack) = 1 /\ stack[1].sender = "X" /\ stack[1].amount = SHARE_AMOUNT
    /\ last = [op |-> "withdraw", result |-> "No balance to withdraw"]
    /\ balances["X"] = 0 /\ balances["Y"] = SHARE_AMOUNT

\* C17: all-or-nothing.  Every call of InheritanceAutomation that fails, with
\* whatever reason, leaves the documents, the hash index, the counts, the case
\* table, the balances and the funds exactly as they were before the call and
\* adds nothing to the event log: a call that fails before any external call
\* changes nothing, and a withdraw whose transfer fails is back at the storage
\* and the log of its beginning.  A createInheritanceCase over a registered
\* document followed by an unregistered one fails with "Document not found",
\* leaves the caseId without a case and the case count as it was.
C17_Failed == last'.result \notin {"ok", "calling"}

C17_Step ==
    /\ (C17_Failed /\ stack' = stack) =>
          /\ UNCHANGED storage
          /\ Storage' = Storage
          /\ logs' = Log
    /\ (C17_Failed /\ stack' # stack) =>
          /\ Len(stack') = Len(stack) - 1
          /\ Storage' = stack[Len(stack)].saved
          /\ logs' = stack[Len(stack)].logs

C17_CreateStep(a, id) ==
    (Registered(keccak256(1)) /\ ~Registered(keccak256(2)) /\ ~Exists(id) /\ TopLevel
        /\ createInheritanceCase(a, id, <<keccak256(1), keccak256(2)>>,
                                  <<"X", "Y">>, <<50, 50>>))
    => /\ last' = [op |-> "createInheritanceCase", result |-> "Document not found"]
       /\ inheritanceCases'[id] = ZeroCase
       /\ totalCases' = totalCases
       /\ UNCHANGED storage

C17_AllOrNothing ==
    [][C17_Step /\ \A a \in Addr, id \in CaseIds : C17_CreateStep(a, id)]_vars

\* a case over a registered and an unregistered document was refused
C17_Witness ==
    /\ last = [op |-> "createInheritanceCase", result |-> "Document not found"]
    /\ Registered(keccak256(1)) /\ ~Registered(keccak256(2))
    /\ inheritanceCases["case-1"] = ZeroCase
    /\ totalCases = 0

\* C18: balance invariant, in both contracts.  No balance is ever negative.
\* In every step that is not a revert, each principal's balance changes by
\* exactly what the step credits it, as the events of the step record it
\* (Deposited by the principal in InheritanceAutomation, AssetDistributed to
\* the principal, the amount of InheritanceDistributed for each of its two
\* wallets), less the amount of a withdraw the principal starts, which is at
\* most the balance; and a withdraw that fails puts every balance back to
\* what it was before the withdraw, so that only successful withdraws count
\* as debits.
C18_NonNegative == \A a \in Addr : balances[a] >= 0

RECURSIVE C18_Credited(_, _, _)
C18_Credited(log, a, i) ==
    IF i > Len(log) THEN 0
    ELSE LET e == log[i] IN
         (IF contract = IA /\ e[1] = "Deposited" /\ e[2] = a THEN e[3]
          ELSE IF e[1] = "AssetDistributed" /\ e[3] = a THEN e[4]
          ELSE IF e[1] = "InheritanceDistributed"
               THEN (IF e[2] = a THEN e[4] ELSE 0) + (IF e[3] = a THEN e[4] ELSE 0)
          ELSE 0)
         + C18_Credited(log, a, i + 1)

C18_Step ==
    LET new == SubSeq(logs', Len(Log) + 1, Len(logs'))
        started == Len(stack') = Len(stack) + 1
        f == stack'[Len(stack')]
    IN
    /\ ~C17_Failed =>
          \A a \in Addr :
              balances'[a] = balances[a] + C18_Credited(new, a, 1)
                                 - (IF started /\ f.sender = a THEN f.amount ELSE 0)
    /\ started => f.amount <= balances[f.sender]
    /\ (C17_Failed /\ stack' = stack) => balances' = balances
    /\ (C17_Failed /\ stack' # stack) => balances' = stack[Len(stack)].saved.balances

C18_BalanceInvariant == []C18_NonNegative /\ [][C18_Step]_vars

\* X was credited 700 by a distribution and 1000 by its own deposit and has
\* withdrawn 500
C18_Witness ==
    /\ contract = IA
    /\ last = [op |-> "withdraw", result |-> "ok"]
    /\ stack = <<>>
    /\ logs = <<<<"Released", "X", 500>>>>
    /\ inheritanceCases["case-1"].isDistributed
    /\ inheritanceCases["case-1"].totalAmount = 2000
    /\ balances["X"] = 1200

\* C19: the balances of InheritanceAutomation are credited only by
\* distribution and debited only by withdrawal.  A balance rises only in a
\* successful distributeAssets of a case that names the principal as an
\* inheritor (or when a failed withdraw gives the debit back), and falls only
\* when the principal's own withdraw starts its transfer (or when a failed
\* withdraw takes back what was credited during its external call); no other
\* operation changes a balance.
C19_Step(a) ==
    /\ balances'[a] > balances[a] =>
          \/ /\ last' = [op |-> "distributeAssets", result |-> "ok"]
             /\ \E id \in CaseIds :
                   /\ ~inheritanceCases[id].isDistributed
                   /\ inheritanceCases'[id].isDistributed
                   /\ \E i \in 1..Len(inheritanceCases[id].inheritors) :
                         inheritanceCases[id].inheritors[i].wallet = a
          \/ /\ last' = [op |-> "withdraw", result |-> "Transfer failed"]
             /\ Len(stack') = Len(stack) - 1
             /\ stack[Len(stack)].sender = a
    /\ balances'[a] < balances[a] =>
          \/ /\ last' = [op |-> "withdraw", result |-> "calling"]
             /\ Len(stack') = Len(stack) + 1
             /\ stack'[Len(stack')].sender = a
          \/ /\ last' = [op |-> "withdraw", result |-> "Transfer failed"]
             /\ Len(stack') = Len(stack) - 1

C19_LedgerFrame == [][\A a \in Addr : C19_Step(a)]_vars

\* C20: failure kinds of createInheritanceCase and their precedence.  It
\* fails with "Case already exists" if the caseId has a case; else with "At
\* least one document required", "Arrays length mismatch" or "At least one
\* inheritor required" on such arguments; else with "Document not found" if a
\* referenced hash is not registered; else with "Total share must be 100" if
\* the shares do not sum to 100; so a call with an unregistered hash and
\* shares that do not sum to 100 fails with "Document not found".  A failed
\* call creates no case.
C20_Expected(id, hs, ws, ss) ==
    IF Exists(id) THEN "Case already exists"
    ELSE IF hs = <<>> THEN "At least one document required"
    ELSE IF Len(ws) # Len(ss) THEN "Arrays length mismatch"
    ELSE IF ws = <<>> THEN "At least one inheritor required"
    ELSE IF \E i \in 1..Len(hs) : ~Registered(hs[i]) THEN "Document not found"
    ELSE IF C10_Sum(ss, 1) # 100 THEN "Total share must be 100"
    ELSE "ok"

C20_Step(id, hs, ws, ss) ==
    createInheritanceCase("X", id, hs, ws, ss) =>
        /\ last' = [op |-> "createInheritanceCase",
                    result |-> C20_Expected(id, hs, ws, ss)]
        /\ last'.result # "ok" => UNCHANGED storage

C20_FailurePrecedence ==
    [][\A id \in CaseIds, hs \in HashLists, ws \in InheritorLists, ss \in ShareVectors :
          C20_Step(id, hs, ws, ss)]_vars

\* C21: encryptAndSendToBank.  It fails with "Document does not exist" on
\* an unregistered hash; else with "Only document owner can encrypt" unless
\* the caller is the owner of the document; else with "Document content
\* cannot be empty" or "Bank public key cannot be empty" on such an argument;
\* every failure leaves the storage as it was.  On success only encryptedData
\* and bankPublicKey of that document change, bankPublicKey to the key given:
\* its hash, owner, timestamp, isVerified and documentType, every other
\* document, the index, the counts, the cases, the balances and the funds
\* stay as they were.
C21_Step(a, h, c, k) ==
    encryptAndSendToBank(a, h, c, k) =>
        /\ last'.op = "encryptAndSendToBank"
        /\ ~Registered(h) => last'.result = "Document does not exist"
        /\ (Registered(h) /\ documents[h].owner # a)
              => last'.result = "Only document owner can encrypt"
        /\ (Registered(h) /\ documents[h].owner = a /\ c = EmptyString)
              => last'.result = "Document content cannot be empty"
        /\ (Registered(h) /\ documents[h].owner = a /\ c # EmptyString /\ k = EmptyBytes)
              => last'.result = "Bank public key cannot be empty"
        /\ (Registered(h) /\ documents[h].owner = a /\ c # EmptyString /\ k # EmptyBytes)
              => last'.result = "ok"
        /\ last'.result # "ok" => UNCHANGED storage /\ logs' = Log
        /\ last'.result = "ok" =>
              /\ documents'[h] = [documents[h] EXCEPT !.encryptedData = documents'[h].encryptedData,
                                                      !.bankPublicKey = k]
              /\ documents'[h].encryptedData # EmptyBytes
              /\ \A other \in Hashes \ {h} : documents'[other] = documents[other]
              /\ UNCHANGED <<inheritanceCases, balances, totalCases, totalDocuments,
                             allDocumentHashes, userDocuments, bankAddress, status, funds>>

C21_AttachPayload ==
    [][last'.op = "encryptAndSendToBank" =>
          \A a \in Addr, h \in Hashes, c \in {EmptyString, 1}, k \in {EmptyBytes, Key} :
              C21_Step(a, h, c, k)]_vars

\* the owner attached a payload to a verified document of a funded case
C21_Witness ==
    /\ last = [op |-> "encryptAndSendToBank", result |-> "ok"]
    /\ documents[keccak256(1)].bankPublicKey = Key
    /\ documents[keccak256(1)].isVerified
    /\ documents[keccak256(1)].owner = "X"
    /\ Exists("case-1")
    /\ balances["X"] > 0


\* the counts agree with the index, the registry and the cases
C22_Counts ==
    /\ totalDocuments = Len(allDocumentHashes)
    /\ totalDocuments = Cardinality({h \in Hashes : Registered(h)})
    /\ \A h \in Hashes :
          Registered(h) <=>
              Cardinality({i \in 1..Len(allDocumentHashes) : allDocumentHashes[i] = h}) = 1
    /\ \A i \in 1..Len(allDocumentHashes) : allDocumentHashes[i] \in Hashes
    /\ totalCases = Cardinality({id \in CaseKeys : Exists(id)})

\* the index grows at its end, by the hash a registration has just stored
C22_Order ==
    /\ totalDocuments' >= totalDocuments
    /\ totalCases' >= totalCases
    /\ \A h \in Hashes :
          ~Registered(h) /\ Registered(h)' =>
              /\ last' = [op |-> "registerDocument", result |-> "ok"]
              /\ allDocumentHashes' = Append(allDocumentHashes, h)
    /\ (\A h \in Hashes : Registered(h)' => Registered(h)) =>
          allDocumentHashes' = allDocumentHashes
    /\ \A id \in CaseKeys :
          ~Exists(id) /\ Exists(id)' =>
              /\ last' = [op |-> "createInheritanceCase", result |-> "ok"]
              /\ totalCases' = totalCases + 1

C22_Get(i) ==
    getDocumentByIndex(i) =>
        /\ UNCHANGED storage
        /\ IF i >= totalDocuments
           THEN last' = [op |-> "getDocumentByIndex", result |-> "Index out of bounds"]
           ELSE /\ last'.result = "ok"
                /\ last'.value = documents[allDocumentHashes[i + 1]]
                /\ Registered(last'.value.documentHash)

\* C22: enumeration.  In every reachable state totalDocuments is the length
\* of allDocumentHashes and the number of registered documents, the index
\* holds each registered hash exactly once, and totalCases is the number of
\* cases that exist; totalDocuments and totalCases never decrease, the index
\* changes only by a successful registerDocument appending the hash it has
\* registered, and a case comes into existence only by a successful
\* createInheritanceCase that counts it; getDocumentByIndex(i) fails with
\* "Index out of bounds" exactly when i >= totalDocuments and otherwise
\* returns the document whose hash is the i-th of the index (from 0).
C22_Enumeration ==
    /\ []C22_Counts
    /\ [][C22_Order /\ \A i \in Indexes : C22_Get(i)]_vars

\* the second of two documents, registered in the order 2, 1, read by index
\* while two cases exist
C22_Witness ==
    /\ last.op = "getDocumentByIndex"
    /\ last.result = "ok"
    /\ totalDocuments = 2
    /\ allDocumentHashes = <<keccak256(2), keccak256(1)>>
    /\ last.value.documentHash = keccak256(1)
    /\ totalCases = 2


C24_RegistryFrame ==
    [][last'.op \in {"createInheritanceCase", "deposit", "distributeAssets"} =>
          UNCHANGED <<documents, allDocumentHashes, totalDocuments, userDocuments>>]_vars

\* what getInheritanceCase returns for each document of the case is what the
\* registry holds for its hash
C24_Exposed ==
    last.op = "getInheritanceCase" /\ last.result = "ok" =>
        \A i \in 1..Len(last.value.documents) :
            LET d == last.value.documents[i] IN
            d.isVerified = documents[d.documentHash].isVerified

\* C24: references, not copies.  createInheritanceCase, deposit and
\* distributeAssets leave every Document of the registry, the index and the
\* document count unchanged, and the verification state that a case exposes
\* through getInheritanceCase for each of its documents is the state the
\* registry holds for that hash at the time of the call.
C24_ReadOnlyReferences ==
    /\ []C24_Exposed
    /\ C24_RegistryFrame


C25_Step(id) ==
    LET before == inheritanceCases[id].inheritors
        after == inheritanceCases'[id].inheritors
    IN
    Exists(id) =>
        /\ Exists(id)'
        /\ Len(after) = Len(before)
        /\ \A i \in 1..Len(before) :
              /\ after[i].wallet = before[i].wallet
              /\ after[i].share = before[i].share
        /\ after # before =>
              /\ last' = [op |-> "distributeAssets", result |-> "ok"]
              /\ ~inheritanceCases[id].isDistributed
              /\ inheritanceCases'[id].isDistributed
              /\ \A other \in CaseKeys \ {id} :
                    inheritanceCases'[other] = inheritanceCases[other]
        /\ inheritanceCases[id].isDistributed => after = before

\* C25: beneficiaries.  Once a case exists it keeps existing, and the number,
\* the order, the wallets and the shares of its inheritors never change; an
\* inheritor record (its hasReceived and receivedAmount) changes only in the
\* step of a successful distributeAssets that sets the isDistributed flag of
\* that very case and changes no other case, and never once the flag is set.
C25_BeneficiariesFixed == [][\A id \in CaseKeys : C25_Step(id)]_vars

\* both cases are distributed, the second after the first, and a withdraw
\* has been paid since
C25_Witness ==
    /\ \A id \in CaseKeys :
          /\ inheritanceCases[id].isDistributed
          /\ \A i \in 1..Len(inheritanceCases[id].inheritors) :
                inheritanceCases[id].inheritors[i].hasReceived
    /\ inheritanceCases["case-1"].inheritors[1].receivedAmount
          # inheritanceCases["case-2"].inheritors[1].receivedAmount
    /\ last = [op |-> "withdraw", result |-> "ok"]


\* the amount the code computes for inheritor i of case id
C26_Amount(id, i) ==
    (inheritanceCases[id].totalAmount * inheritanceCases[id].inheritors[i].share) \div 100

\* while the loop runs the flag is set and the lock is held, and a case whose
\* flag is not set has credited nobody
C26_FlagFirst ==
    /\ Running =>
          /\ inheritanceCases[last.caseId].isDistributed
          /\ status = ENTERED
    /\ \A id \in CaseIds :
          ~inheritanceCases[id].isDistributed =>
              \A i \in 1..Len(inheritanceCases[id].inheritors) :
                  /\ ~inheritanceCases[id].inheritors[i].hasReceived
                  /\ inheritanceCases[id].inheritors[i].receivedAmount = 0

\* the call passes its requires: the flag is written, nothing is credited yet
C26_Begin ==
    (~Running /\ Running') =>
        /\ ~inheritanceCases[last'.caseId].isDistributed
        /\ inheritanceCases' =
              [inheritanceCases EXCEPT ![last'.caseId].isDistributed = TRUE]
        /\ last'.i = 1
        /\ balances' = balances
        /\ logs' = <<>>

\* one iteration: inheritor i is credited its amount, recorded and logged
\* when the amount is positive, and left as it was when it is 0
C26_Credit ==
    (Running /\ Running') =>
        LET id == last.caseId
            i == last.i
            before == inheritanceCases[id].inheritors
            after == inheritanceCases'[id].inheritors
            amount == C26_Amount(id, i)
        IN
        /\ i <= Len(before)
        /\ last' = [last EXCEPT !.i = i + 1]
        /\ inheritanceCases' = [inheritanceCases EXCEPT ![id].inheritors[i] = after[i]]
        /\ after[i].wallet = before[i].wallet
        /\ after[i].share = before[i].share
        /\ IF amount > 0
           THEN /\ after[i].hasReceived
                /\ after[i].receivedAmount = amount
                /\ balances' = [balances EXCEPT ![before[i].wallet] = @ + amount]
                /\ logs' = Append(logs, <<"AssetDistributed", id, before[i].wallet, amount>>)
           ELSE /\ ~after[i].hasReceived
                /\ after[i].receivedAmount = 0
                /\ balances' = balances
                /\ logs' = logs

\* the call returns: every inheritor has been visited once, and the records
\* and the log of the call are those of the credited inheritors
C26_End ==
    (Running /\ ~Running') =>
        LET id == last.caseId
            inheritors == inheritanceCases'[id].inheritors
            credited == {i \in 1..Len(inheritors) : C26_Amount(id, i) > 0}
        IN
        /\ last' = [op |-> "distributeAssets", result |-> "ok"]
        /\ last.i = Len(inheritors) + 1
        /\ inheritanceCases' = inheritanceCases
        /\ balances' = balances
        /\ logs' = logs
        /\ \A i \in 1..Len(inheritors) :
              /\ inheritors[i].hasReceived <=> i \in credited
              /\ inheritors[i].receivedAmount =
                    IF i \in credited THEN C26_Amount(id, i) ELSE 0
        /\ Len(logs') = Cardinality(credited)
        /\ \E f \in [credited -> 1..Len(logs')] :
              /\ \A i, j \in credited : i < j => f[i] < f[j]
              /\ \A i \in credited :
                    logs'[f[i]] = <<"AssetDistributed", id, inheritors[i].wallet,
                                    C26_Amount(id, i)>>

\* C26: the distribution record.  distributeAssets writes isDistributed
\* before its loop credits anybody: while the loop runs the flag is set, and
\* a case whose flag is not set has no inheritor with hasReceived or a
\* receivedAmount.  The loop visits each inheritor once, in order: an
\* inheritor whose amount (totalAmount * share) / 100 is positive gets
\* hasReceived, receivedAmount = amount, its balance raised by the amount and
\* one AssetDistributed event; one whose amount is 0 keeps hasReceived false
\* and receivedAmount 0, with no credit and no event.  When the call returns,
\* hasReceived holds exactly for the inheritors with a positive amount and the
\* log of the call holds exactly one AssetDistributed for each of them.
C26_DistributionRecord ==
    /\ []C26_FlagFirst
    /\ [][C26_Begin /\ C26_Credit /\ C26_End]_vars

\* a distribution has returned that credited X all of 1001 and Y nothing
C26_Witness ==
    /\ last = [op |-> "distributeAssets", result |-> "ok"]
    /\ inheritanceCases["case-1"].isDistributed
    /\ inheritanceCases["case-1"].totalAmount = 1001
    /\ inheritanceCases["case-1"].inheritors[1] =
          [wallet |-> "X", share |-> 100, hasReceived |-> TRUE, receivedAmount |-> 1001]
    /\ inheritanceCases["case-1"].inheritors[2] =
          [wallet |-> "Y", share |-> 0, hasReceived |-> FALSE, receivedAmount |-> 0]
    /\ logs = <<<<"AssetDistributed", "case-1", "X", 1001>>>>
    /\ balances["Y"] = 0


\* the places of the chain's log that hold an event of this kind for hash h
C27_Places(kind, h) ==
    {i \in 1..Len(chain.log) : chain.log[i][1] = kind /\ chain.log[i][2] = h}

\* per hash: one DocumentRegistered if it is registered and none if not, one
\* DocumentVerified if it is verified and none if not, and the
\* DocumentVerified after the DocumentRegistered
C27_PerHash ==
    \A h \in Hashes :
        /\ Cardinality(C27_Places("DocumentRegistered", h)) = IF Registered(h) THEN 1 ELSE 0
        /\ Cardinality(C27_Places("DocumentVerified", h)) =
              IF documents[h].isVerified THEN 1 ELSE 0
        /\ \A v \in C27_Places("DocumentVerified", h) :
              \E r \in C27_Places("DocumentRegistered", h) : r < v

\* what the step has appended to the chain's log
C27_New == SubSeq(chain'.log, Len(chain.log) + 1, Len(chain'.log))

C27_Step ==
    /\ Len(chain'.log) >= Len(chain.log)
    /\ SubSeq(chain'.log, 1, Len(chain.log)) = chain.log
    /\ last'.result \notin {"ok", "calling"} => chain' = chain
    /\ stack' # <<>> => chain' = chain
    /\ (stack = <<>> /\ last'.result = "ok") =>
          /\ last'.op = "registerDocument" =>
                \E h \in Hashes :
                    /\ ~Registered(h) /\ Registered(h)'
                    /\ C27_New = <<<<"DocumentRegistered", h, documents'[h].owner,
                                     documents'[h].documentType>>>>
          /\ last'.op = "verifyDocument" =>
                \E h \in Hashes :
                    /\ ~documents[h].isVerified /\ documents'[h].isVerified
                    /\ C27_New = <<<<"DocumentVerified", h, bankAddress>>>>
          /\ last'.op = "createInheritanceCase" =>
                \E id \in CaseIds, a \in Addr :
                    /\ ~Exists(id) /\ Exists(id)'
                    /\ C27_New = <<<<"InheritanceCaseCreated", id, a>>>>
          /\ last'.op = "deposit" =>
                \E a \in Addr :
                    /\ balances'[a] > balances[a]
                    /\ C27_New = <<<<"Deposited", a, balances'[a] - balances[a]>>>>
          /\ last'.op = "distributeAssets" =>
                \E id \in CaseIds :
                    /\ ~inheritanceCases[id].isDistributed
                    /\ inheritanceCases'[id].isDistributed
                    /\ Len(C27_New) =
                          Cardinality({i \in 1..Len(inheritanceCases'[id].inheritors) :
                                          inheritanceCases'[id].inheritors[i].hasReceived})
                    /\ \A i \in 1..Len(inheritanceCases'[id].inheritors) :
                          inheritanceCases'[id].inheritors[i].hasReceived =>
                              \E j \in 1..Len(C27_New) :
                                  C27_New[j] =
                                      <<"AssetDistributed", id,
                                        inheritanceCases'[id].inheritors[i].wallet,
                                        inheritanceCases'[id].inheritors[i].receivedAmount>>
    /\ (Len(stack) = 1 /\ stack' = <<>> /\ last'.result = "ok") =>
          /\ C27_New = logs'
          /\ logs'[Len(logs')] = <<"Released", stack[1].sender, stack[1].amount>>
          /\ \A j \in 1..(Len(logs') - 1) : logs'[j][1] = "Deposited"

\* C27: the event log.  The log of the chain only grows at its end.  A
\* successful registerDocument, verifyDocument, createInheritanceCase, deposit
\* or distributeAssets made as a transaction appends its event
\* (DocumentRegistered, DocumentVerified, InheritanceCaseCreated, Deposited,
\* one AssetDistributed per credited inheritor) and nothing else; a withdraw
\* that completes appends Released after the events of the deposits made
\* from inside its external call; a call that fails appends nothing, and a
\* withdraw whose transfer fails drops the events of its nested calls.  So
\* the log holds exactly one DocumentRegistered for each registered hash and
\* none for the others, one DocumentVerified for each verified hash and none
\* for the others, and the DocumentVerified of a hash comes after its
\* DocumentRegistered.
C27_EventLog ==
    /\ []C27_PerHash
    /\ [][C27_Step]_vars

\* both documents registered and verified, the second before the first, then
\* a distribution and a withdraw that completed after a nested deposit
C27_Witness ==
    /\ \A h \in Hashes : documents[h].isVerified
    /\ \E r2 \in C27_Places("DocumentRegistered", keccak256(2)),
          r1 \in C27_Places("DocumentRegistered", keccak256(1)) : r2 < r1
    /\ \E i, j, k \in 1..Len(chain.log) :
          /\ i < j /\ j + 1 = k /\ k = Len(chain.log)
          /\ chain.log[i][1] = "AssetDistributed"
          /\ chain.log[j][1] = "Deposited"
          /\ chain.log[k][1] = "Released"
    /\ last = [op |-> "withdraw", result |-> "ok"]


\* C28: decryptAndVerifyDocument is the bank's.  A call by any other caller
\* is rejected and changes nothing, and a call succeeds only for a registered
\* document whose stored hash is the hash of the decrypted content supplied.
C28_BankOnlyDecrypt ==
    [][\A a \in Addr, h \in Hashes, c \in {EmptyString} \cup Contents :
          decryptAndVerifyDocument(a, h, c) =>
              /\ a # bankAddress =>
                    last'.result # "ok" /\ UNCHANGED storage /\ logs' = Log
              /\ last'.result = "ok" =>
                    /\ Registered(h)
                    /\ documents[h].documentHash = keccak256(c)]_vars

\* C29: verifyDocumentHash returns whether documentHash is the digest of
\* documentContent, the digest registerDocument computes: true when
\* documentHash = keccak256(documentContent) and false otherwise.
C29_HashCheck ==
    [][\A h \in Hashes, c \in {EmptyString} \cup Contents :
          verifyDocumentHash(h, c) =>
              /\ last'.result = "ok"
              /\ last'.value = (h = keccak256(c))]_vars


C30_Step(h) ==
    (/\ contract = SI
     /\ ~isInheritanceDistributed
     /\ funds < PoolRequired
     /\ SI_verifyDocument(bankAddress, h)) =>
        /\ last'.op = "verifyDocument"
        /\ last'.result = IF Registered(h) THEN "Insufficient balance"
                          ELSE "Document does not exist"
        /\ UNCHANGED storage
        /\ ~documents'[h].isVerified
        /\ logs' = Log

C30_VerifiedImpliesDistributed ==
    contract = SI =>
        ((\E h \in Hashes : documents[h].isVerified) => isInheritanceDistributed)

\* C30: verification waits for the funds.  In SimpleInheritance a
\* verifyDocument of the bank made while isInheritanceDistributed is false
\* and the contract holds less than PoolRequired (10,000,000,000 wei) fails
\* as a whole, with "Insufficient balance" for a registered document: the
\* storage is unchanged, the document is still unverified and nothing is
\* logged.  So in every reachable state, if any document is verified then
\* isInheritanceDistributed is true.
C30_VerifyNeedsFunds ==
    /\ []C30_VerifiedImpliesDistributed
    /\ [][\A h \in Hashes : C30_Step(h)]_vars

\* the bank's verify of a registered document was refused while the contract
\* held half of what the distribution needs
C30_Witness ==
    /\ contract = SI
    /\ last = [op |-> "verifyDocument", result |-> "Insufficient balance"]
    /\ funds = SHARE_AMOUNT
    /\ ~isInheritanceDistributed
    /\ \E h \in Hashes : Registered(h)
    /\ \A h \in Hashes : ~documents[h].isVerified


\* what the two inheritors may withdraw is held by the contract
C31_Covered ==
    contract = SI =>
        /\ balances[overseasInheritor.wallet] + balances[domesticInheritor.wallet] <= funds
        /\ \A a \in {overseasInheritor.wallet, domesticInheritor.wallet} :
              balances[a] > 0 => SI_withdrawCheck(a) = "ok"

\* a withdraw of an inheritor with a balance gets as far as its transfer
C31_Step(a) ==
    (/\ contract = SI
     /\ a \in {overseasInheritor.wallet, domesticInheritor.wallet}
     /\ balances[a] > 0
     /\ SI_withdraw(a)) =>
        /\ last' = [op |-> "withdraw", result |-> "calling"]
        /\ funds' = funds - balances[a]
        /\ funds' >= 0

\* C31: fixed-split solvency.  In every reachable state of SimpleInheritance,
\* under any interleaving of deposit, receive, verifyDocument and withdraw,
\* calls made from inside the external call of a withdraw and reverted
\* withdraws included, the balances of the two inheritors sum to at most the
\* funds the contract holds, so the withdraw of an inheritor with a positive
\* balance never fails for lack of funds: it reaches its transfer, and the
\* contract holds the amount it sends.
C31_Solvency ==
    /\ []C31_Covered
    /\ [][\A a \in Addr : C31_Step(a)]_vars

\* one inheritor has withdrawn its share and the other's share is all the
\* contract still holds
C31_Witness ==
    /\ contract = SI
    /\ last = [op |-> "withdraw", result |-> "ok"]
    /\ stack = <<>>
    /\ balances["X"] = 0
    /\ balances["Y"] = SHARE_AMOUNT
    /\ funds = SHARE_AMOUNT


RECURSIVE C32_Received(_, _)
C32_Received(inheritors, i) ==
    IF i > Len(inheritors) THEN 0
    ELSE inheritors[i].receivedAmount + C32_Received(inheritors, i + 1)

\* what the floors of a distributed case have left over
C32_Remainder(c) == c.totalAmount - C32_Received(c.inheritors, 1)

C32_Step(id) ==
    LET c == inheritanceCases[id]
        d == inheritanceCases'[id]
        credit == [w \in Addr |-> balances'[w] - balances[w]]
    IN
    /\ (~c.isDistributed /\ d.isDistributed) =>
          /\ d.totalAmount = c.totalAmount
          /\ C32_Remainder(d) >= 0
          /\ C32_Remainder(d) < Len(d.inheritors)
          /\ SumOver(credit, Addr) = c.totalAmount - C32_Remainder(d)
          /\ \A w \in Addr : credit[w] >= 0
          /\ funds' = funds
    /\ c.isDistributed =>
          /\ d.isDistributed
          /\ C32_Received(d.inheritors, 1) = C32_Received(c.inheritors, 1)
          /\ \A w \in Addr : credit[w] > 0 =>
                \/ /\ last' = [op |-> "deposit", result |-> "ok"]
                   /\ credit[w] = d.totalAmount - c.totalAmount
                   /\ funds' = funds + credit[w]
                   /\ \A v \in Addr \ {w} : credit[v] = 0
                \/ /\ last' = [op |-> "withdraw", result |-> "Transfer failed"]
                   /\ Len(stack') = Len(stack) - 1
                   /\ balances' = stack[Len(stack)].saved.balances

\* C32: the remainder of the floors.  In the step of a successful
\* distributeAssets over n inheritors, totalAmount minus the sum of the
\* receivedAmount it records is at least 0 and less than n, and the balances
\* rise by totalAmount minus that remainder in all: the remainder is credited
\* to nobody and no ether moves.  Once the case is distributed the amounts
\* received never change, and a balance rises only by a new deposit of its
\* owner, by exactly the ether that deposit brings in, or when the revert of a
\* failed withdraw restores it: no later step credits the remainder.
C32_Remainder_NotSwept == [][\A id \in CaseIds : C32_Step(id)]_vars

\* 1001 was distributed by shares [70, 30], leaving 1, and a deposit and a
\* withdraw were made afterwards
C32_Witness ==
    /\ contract = IA
    /\ inheritanceCases["case-1"].isDistributed
    /\ inheritanceCases["case-1"].inheritors[1].receivedAmount = 700
    /\ inheritanceCases["case-1"].inheritors[2].receivedAmount = 300
    /\ inheritanceCases["case-1"].totalAmount = 2001
    /\ last = [op |-> "withdraw", result |-> "ok"]
    /\ stack = <<>>


C33_Step(id) ==
    LET c == inheritanceCases[id]
        d == inheritanceCases'[id]
    IN
    /\ (~Exists(id) /\ Exists(id)') =>
          \A i \in 1..Len(d.documents) :
              d.documents[i] = documents[d.documents[i].documentHash]
    /\ Exists(id) =>
          /\ Exists(id)'
          /\ d.documents = c.documents
    /\ (last'.op \in {"verifyDocument", "encryptAndSendToBank"} /\ last'.result = "ok") =>
          /\ inheritanceCases' = inheritanceCases
          /\ \E h \in Hashes : \A g \in Hashes \ {h} : documents'[g] = documents[g]
          /\ last'.op = "verifyDocument" => documents' # documents

\* C33: the snapshot.  createInheritanceCase stores in the case the Document
\* values the registry holds at that time, and no later step of any function
\* changes them: a successful verifyDocument or encryptAndSendToBank writes
\* one record of the registry and no case, so the copy a case holds of that
\* document keeps its isVerified, encryptedData and bankPublicKey.
C33_SnapshotFrozen == [][\A id \in CaseIds : C33_Step(id)]_vars

\* the case still holds its document unverified and without payload, while
\* the registry holds it verified and with the payload attached since
C33_Witness ==
    /\ Exists("case-1")
    /\ inheritanceCases["case-1"].documents[1].documentHash = keccak256(1)
    /\ ~inheritanceCases["case-1"].documents[1].isVerified
    /\ inheritanceCases["case-1"].documents[1].encryptedData = EmptyBytes
    /\ inheritanceCases["case-1"].documents[1].bankPublicKey = EmptyBytes
    /\ documents[keccak256(1)].isVerified
    /\ documents[keccak256(1)].encryptedData # EmptyBytes
    /\ documents[keccak256(1)].bankPublicKey = Key


\* the revert of a failed withdraw: the storage is what it was when the
\* withdraw began
C34_Rollback ==
    /\ last' = [op |-> "withdraw", result |-> "Transfer failed"]
    /\ Len(stack') = Len(stack) - 1
    /\ inheritanceCases' = stack[Len(stack)].saved.inheritanceCases
    /\ balances' = stack[Len(stack)].saved.balances

C34_Step(id) ==
    LET c == inheritanceCases[id]
        d == inheritanceCases'[id]
    IN
    /\ \A a \in Addr, v \in Amounts :
          (c.isDistributed /\ v > 0 /\ deposit(a, id, v)) =>
              /\ last' = [op |-> "deposit", result |-> "ok"]
              /\ d = [c EXCEPT !.totalAmount = @ + v]
              /\ balances' = [balances EXCEPT ![a] = @ + v]
    /\ c.isDistributed =>
          /\ d.isDistributed
          /\ d.inheritors = c.inheritors
          /\ \A a \in Addr : distributeAssets(a, id) =>
                last'.result # "ok" /\ UNCHANGED storage
          /\ \A w \in Addr : balances'[w] > balances[w] =>
                \/ /\ last' = [op |-> "deposit", result |-> "ok"]
                   /\ balances'[w] - balances[w] = d.totalAmount - c.totalAmount
                   /\ \A u \in Addr \ {w} : balances'[u] = balances[u]
                \/ C34_Rollback
    /\ Exists(id) =>
          \/ d.totalAmount >= c.totalAmount
          \/ C34_Rollback
    /\ last'.op \in {"distributeAssets", "withdraw"} /\ last'.result \in {"ok", "calling"}
          => d.totalAmount = c.totalAmount

\* C34: distributed is terminal for the inheritors, not for the pool.  A
\* deposit of a positive amount into a distributed case succeeds: it raises
\* the totalAmount of the case and the balance of the depositor by the amount
\* and changes nothing else of the case and no other balance, so no inheritor
\* is credited a share of it (an inheritor that deposits gets its deposit, as
\* any depositor).  Once a case is distributed, its inheritor records never
\* change, every distributeAssets on it fails, and a balance rises only by
\* its owner's own deposit or when the revert of a failed withdraw restores
\* it.  The totalAmount of a case never falls, in distributeAssets and in
\* withdraw neither, but for that revert, which takes back the deposits made
\* inside the reverted transaction.
C34_TerminalForInheritors == [][\A id \in CaseIds : C34_Step(id)]_vars

\* 1000 was distributed, 700 to X and 300 to Y; the bank has deposited 1001
\* more since, and Y still holds its 300
C34_Witness ==
    /\ contract = IA
    /\ last = [op |-> "deposit", result |-> "ok"]
    /\ stack = <<>>
    /\ inheritanceCases["case-1"].isDistributed
    /\ inheritanceCases["case-1"].totalAmount = 2001
    /\ inheritanceCases["case-1"].inheritors[1].receivedAmount = 700
    /\ inheritanceCases["case-1"].inheritors[2].receivedAmount = 300
    /\ balances["Y"] = 300
    /\ balances["bank"] = 2001


C35_IsInheritor(a) == a = overseasInheritor.wallet \/ a = domesticInheritor.wallet

C35_Other(a) ==
    IF a = overseasInheritor.wallet THEN domesticInheritor.wallet
    ELSE overseasInheritor.wallet

C35_Step(a) ==
    /\ SI_withdraw(a) =>
          /\ ~C35_IsInheritor(a) =>
                /\ last' = [op |-> "withdraw", result |-> "Only inheritors can withdraw"]
                /\ UNCHANGED <<storage, stack>>
          /\ (C35_IsInheritor(a) /\ balances[a] = 0) =>
                /\ last' = [op |-> "withdraw", result |-> "No balance to withdraw"]
                /\ UNCHANGED <<storage, stack>>
          /\ last'.result = "calling" =>
                /\ C35_IsInheritor(a)
                /\ balances[a] > 0
                /\ stack' = Append(stack, stack'[Len(stack')])
                /\ stack'[Len(stack')].sender = a
                /\ stack'[Len(stack')].amount = balances[a]
                /\ funds' = funds - balances[a]
                /\ balances' = [balances EXCEPT ![a] = 0]
                /\ balances'[C35_Other(a)] = balances[C35_Other(a)]
    /\ (contract = SI /\ stack # <<>> /\ stack[Len(stack)].sender = a /\ withdrawReturn(TRUE)) =>
          /\ last' = [op |-> "withdraw", result |-> "ok"]
          /\ C35_IsInheritor(a)
          /\ stack[Len(stack)].amount > 0
          /\ stack[Len(stack)].amount = stack[Len(stack)].saved.balances[a]
          /\ balances'[a] = 0
          /\ balances' = balances
          /\ funds' = funds

\* C35: SimpleInheritance.withdraw by a caller that is neither inheritor
\* fails with "Only inheritors can withdraw", and by an inheritor whose
\* balance is 0 with "No balance to withdraw", both changing nothing.  It goes
\* on to its transfer only for an inheritor with a positive balance: then it
\* sends the whole balance of the caller, sets that balance to 0 and leaves
\* every other balance, the other inheritor's included, as it was; when the
\* transfer returns with success the balance of the caller is 0.
C35_WithdrawAll == [][\A a \in Addr : C35_Step(a)]_vars

\* X has withdrawn its share with success; the share of Y is still there
C35_Witness ==
    /\ contract = SI
    /\ last = [op |-> "withdraw", result |-> "ok"]
    /\ stack = <<>>
    /\ isInheritanceDistributed
    /\ balances["X"] = 0
    /\ balances["Y"] = SHARE_AMOUNT
    /\ funds = PoolRequired - SHARE_AMOUNT


\* everything SimpleInheritance stores but the ether it holds
C36_Ledger ==
    <<documents, allDocumentHashes, totalDocuments, balances, bankAddress,
      overseasInheritor, domesticInheritor, isInheritanceDistributed>>

C36_Step ==
    /\ \A a \in Addr, v \in SimpleAmounts :
          /\ SI_deposit(a, v) =>
                IF v = 0
                THEN /\ last' = [op |-> "deposit", result |-> "Must deposit some amount"]
                     /\ UNCHANGED <<storage, stack>>
                ELSE /\ last' = [op |-> "deposit", result |-> "ok"]
                     /\ funds' = funds + v
                     /\ UNCHANGED <<C36_Ledger, stack>>
          /\ SI_receive(a, v) =>
                /\ last' = [op |-> "receive", result |-> "ok"]
                /\ funds' = funds + v
                /\ UNCHANGED <<C36_Ledger, stack>>
    /\ contract = SI =>
          /\ isInheritanceDistributed => isInheritanceDistributed'
          /\ (~isInheritanceDistributed /\ isInheritanceDistributed') =>
                /\ last' = [op |-> "verifyDocument", result |-> "ok"]
                /\ \E h \in Hashes : SI_verifyDocument(bankAddress, h)
                /\ funds' = funds
                /\ funds >= PoolRequired
          /\ ~isInheritanceDistributed' =>
                /\ \A a \in Addr : balances'[a] = 0
                /\ ~overseasInheritor'.hasReceived
                /\ ~domesticInheritor'.hasReceived

\* C36: SimpleInheritance.deposit of a positive amount and receive of any
\* amount add the amount to the ether the contract holds and change nothing
\* else: no balance, no inheritor record, not isInheritanceDistributed, no
\* document.  deposit of 0 fails with "Must deposit some amount" and changes
\* nothing.  isInheritanceDistributed turns TRUE only in a verifyDocument of
\* the bank that succeeds, which leaves the ether as it is; until then no
\* address has a balance and no inheritor has received.
C36_DepositOnlyFunds == [][C36_Step]_vars

\* the deposits have brought the pool to what distribution requires, a
\* document is registered, and nothing is distributed
C36_Witness ==
    /\ contract = SI
    /\ last = [op |-> "deposit", result |-> "ok"]
    /\ funds = PoolRequired
    /\ allDocumentHashes # <<>>
    /\ ~isInheritanceDistributed
    /\ \A a \in Addr : balances[a] = 0


C37_Credited(inheritor) ==
    inheritor.hasReceived /\ inheritor.receivedAmount = SHARE_AMOUNT

C37_Untouched(inheritor) ==
    ~inheritor.hasReceived /\ inheritor.receivedAmount = 0

C37_Inv ==
    contract = SI =>
        /\ IF isInheritanceDistributed
           THEN C37_Credited(overseasInheritor) /\ C37_Credited(domesticInheritor)
           ELSE C37_Untouched(overseasInheritor) /\ C37_Untouched(domesticInheritor)
        /\ balances[overseasInheritor.wallet] <= overseasInheritor.receivedAmount
        /\ balances[domesticInheritor.wallet] <= domesticInheritor.receivedAmount
        /\ \A a \in Addr \ {overseasInheritor.wallet, domesticInheritor.wallet} :
              balances[a] = 0

C37_Step ==
    contract = SI =>
        \A w \in Addr : balances'[w] > balances[w] =>
            \/ /\ ~isInheritanceDistributed /\ isInheritanceDistributed'
               /\ w \in {overseasInheritor.wallet, domesticInheritor.wallet}
               /\ balances[w] = 0
               /\ balances'[w] = SHARE_AMOUNT
            \/ /\ last' = [op |-> "withdraw", result |-> "Transfer failed"]
               /\ stack # <<>>
               /\ balances' = stack[Len(stack)].saved.balances

\* C37: between the calls of SimpleInheritance, isInheritanceDistributed
\* holds exactly when both inheritors have hasReceived = true and
\* receivedAmount = SHARE_AMOUNT (5,000,000,000), and otherwise both have
\* hasReceived = false and receivedAmount = 0: never exactly one of them.
\* Each inheritor is credited once, SHARE_AMOUNT, in the step that sets
\* isInheritanceDistributed; a balance rises at no other time but when the
\* revert of a failed withdraw restores it, and it never exceeds what the
\* inheritor has received.
C37_BothOrNeither == []C37_Inv /\ [][C37_Step]_vars

\* the bank's verifyDocument has just credited both inheritors
C37_Witness ==
    /\ contract = SI
    /\ last = [op |-> "verifyDocument", result |-> "ok"]
    /\ isInheritanceDistributed
    /\ C37_Credited(overseasInheritor)
    /\ C37_Credited(domesticInheritor)
    /\ balances[overseasInheritor.wallet] = SHARE_AMOUNT
    /\ balances[domesticInheritor.wallet] = SHARE_AMOUNT


\* ============================================ POST /api/blockchain/verify
\* The route of the bank's page that checks a file against the registry of
\* InheritanceAutomation.  It reads the chain with eth_call and writes
\* nothing.
\*
\* A hash travels as a string: with or without the 0x prefix, its hex digits
\* in upper or lower case; digits is <<>> for a string without digits and
\* <<d>> for the digits of the digest d.
HexString(prefix, upper, digits) ==
    [prefix |-> prefix, upper |-> upper, digits |-> digits]

\* a bytes32 as the chain returns it
HexOf(h) == HexString(TRUE, FALSE, <<h>>)

toLowerCase(s) == [s EXCEPT !.upper = FALSE]

\* !hash of JavaScript: the empty string
IsEmptyString(s) == ~s.prefix /\ s.digits = <<>>

formattedHash(hash) == IF hash.prefix THEN hash ELSE [hash EXCEPT !.prefix = TRUE]

\* keccak256(encodePacked(['string', 'uint256'], [content, timestamp])): the
\* digest of another preimage than keccak256(abi.encodePacked(content))
keccak256Packed(content, timestamp) == 200 + 10 * content + timestamp

\* what the eth_call of getDocumentByIndex(i) comes to in the loop: the result
\* is decoded, decoding throws and the hash is cut out of the raw result, or
\* the call fails or returns 0x and the index is skipped
ReadOutcomes == {"decoded", "extracted", "failed"}

\* the indexes of the loop whose document hash equals the formatted hash
Matches(hash, total, reads) ==
    {i \in 0..(total - 1) :
        /\ reads[i] # "failed"
        /\ toLowerCase(HexOf(allDocumentHashes[i + 1])) = toLowerCase(formattedHash(hash))}

\* documentData of a found document, at the index where the loop breaks
documentData(i, read) ==
    LET d == documents[allDocumentHashes[i + 1]] IN
    IF read = "decoded"
    THEN [documentHash |-> HexOf(d.documentHash), owner |-> d.owner,
          timestamp |-> d.timestamp, isVerified |-> d.isVerified,
          documentType |-> d.documentType]
    ELSE [documentHash |-> HexOf(d.documentHash), owner |-> ZeroAddr,
          timestamp |-> 0, isVerified |-> FALSE, documentType |-> ""]

\* the documentData that the route makes up when the loop found nothing
simulatedDocumentData(hash) ==
    [documentHash |-> formattedHash(hash), owner |-> "bank",
     timestamp |-> now, isVerified |-> TRUE, documentType |-> "inheritance"]

hashMatch(data, hash, content) ==
    LET contentHash == HexOf(keccak256Packed(content, data.timestamp))
        directHashMatch == toLowerCase(data.documentHash) = toLowerCase(formattedHash(hash))
        contentHashMatch == toLowerCase(data.documentHash) = toLowerCase(contentHash)
    IN directHashMatch \/ contentHashMatch

\* the answer with success: true
Verified(data, hash, content, match, isSimulation) ==
    [status |-> 200, success |-> TRUE, blockchainHash |-> data.documentHash,
     fileHash |-> hash,
     contentHash |-> HexOf(keccak256Packed(content, data.timestamp)),
     hashMatch |-> match, isSimulation |-> isSimulation,
     documentInfo |-> [owner |-> data.owner, timestamp |-> data.timestamp,
                       isVerified |-> data.isVerified,
                       documentType |-> data.documentType]]

\* rpc: does getBlockNumber answer, does getTotalDocuments answer, and what
\* each getDocumentByIndex comes to
Response(hash, content, rpc) ==
    IF IsEmptyString(hash) \/ content = EmptyString
    THEN [status |-> 400, error |-> "Hash and content are required"]
    ELSE IF ~rpc.block
    THEN [status |-> 200, success |-> FALSE, error |-> "Blockchain error"]
    ELSE LET total == IF rpc.total THEN totalDocuments ELSE 0
             found == Matches(hash, total, rpc.reads)
         IN
         IF found = {}
         THEN Verified(simulatedDocumentData(hash), hash, content, TRUE, TRUE)
         ELSE LET i == CHOOSE j \in found : \A k \in found : j <= k
                  data == documentData(i, rpc.reads[i])
              IN Verified(data, hash, content, hashMatch(data, hash, content), FALSE)

POST(hash, content, rpc) ==
    /\ contract = IA
    /\ stack = <<>>
    /\ Return("POST /api/blockchain/verify", Response(hash, content, rpc))

\* The hashes a client submits: of a registered content or not (Contents has
\* no 3), in either spelling, and the empty string.
Unregistered == keccak256(3)

SubmittedHashes ==
    {HexString(p, u, <<d>>) : p \in BOOLEAN, u \in BOOLEAN, d \in {keccak256(1), Unregistered}}
        \cup {HexString(FALSE, FALSE, <<>>)}

Rpcs ==
    [block : BOOLEAN, total : BOOLEAN, reads : [Indexes \ {Cardinality(Contents)} -> ReadOutcomes]]

NextEndpoint ==
    \/ \E a \in {"X", "Y"}, c \in Contents : registerDocument(a, c, "inheritance")
    \/ \E h \in Hashes : verifyDocument("bank", h)
    \/ Tick
    \/ \E hash \in SubmittedHashes, c \in {EmptyString} \cup Contents, rpc \in Rpcs :
          POST(hash, c, rpc)

SpecEndpoint == InitIA /\ [][NextEndpoint]_vars

C38_Registered(hash) ==
    \E i \in 1..Len(allDocumentHashes) :
        hash.digits = <<allDocumentHashes[i]>>

C38_Step(hash, content, rpc) ==
    POST(hash, content, rpc) =>
        LET r == last'.value IN
        /\ (r.status = 200 /\ r.success /\ r.hashMatch) => C38_Registered(hash)
        /\ (r.status = 200 /\ r.success /\ C38_Registered(hash)) =>
              (r.hashMatch <=> hash.digits = <<keccak256(content)>>)

\* C38: POST /api/blockchain/verify answers success with hashMatch = true
\* only for a submitted hash that is the hash of a registered document, and
\* for a registered hash hashMatch tells whether the submitted content hashes
\* to it.
C38_MatchOnlyRegistered ==
    [][\A hash \in SubmittedHashes, c \in {EmptyString} \cup Contents, rpc \in Rpcs :
          C38_Step(hash, c, rpc)]_vars

====
